---------------------------- MODULE Spec2Model ----------------------------
(***************************************************************************)
(* caked: reading and writing CakePHP style configuration arrays.          *)
(*                                                                         *)
(* The model follows src/src/lex.rs (the character automaton),             *)
(* src/src/deser.rs (the token pass that builds the tree), src/src/kvp.rs  *)
(* (values, their rendering and the string quoting scan) and               *)
(* src/src/ser.rs (the serializer).                                        *)
(*                                                                         *)
(* A character is its code point (Rust's `c as u32`), a string is a        *)
(* sequence of characters.                                                 *)
(***************************************************************************)
EXTENDS Integers, Sequences, FiniteSets, TLC

VARIABLES
    phase,    \* where the run is: feeding the lexer, walking tokens, ...
    fed,      \* the chunks of input text handed to lex so far
    lx,       \* the lexer's locals: state, position, token_position, buffer, codepoint, dest
    de,       \* deser_str's locals: data, current, pair_key, pair_value, pair_set, ...
    ret,      \* what deser_str returned
    text,     \* what ser_str returned for the returned tree
    back,     \* what deser_str returned for that text
    ps,       \* php_str's locals: the characters scanned, d, s, state
    lit,      \* what php_str returned
    io        \* the outside: the file deser_file reads, the sink ser_write writes to

vars == <<phase, fed, lx, de, ret, text, back, ps, lit, io>>

-----------------------------------------------------------------------------
(* Characters *)

\* Code points of the character literals of the source.
Ord ==
    "NUL" :> 0 @@ "BEL" :> 7 @@ "TAB" :> 9 @@ "LF" :> 10 @@ "FF" :> 12 @@
    "CR" :> 13 @@ "ESC" :> 27 @@
    " " :> 32 @@ "\"" :> 34 @@ "$" :> 36 @@ "'" :> 39 @@ "*" :> 42 @@
    "+" :> 43 @@ "," :> 44 @@ "-" :> 45 @@ "." :> 46 @@ "/" :> 47 @@
    "0" :> 48 @@ "1" :> 49 @@ "2" :> 50 @@ "3" :> 51 @@ "4" :> 52 @@
    "5" :> 53 @@ "6" :> 54 @@ "7" :> 55 @@ "8" :> 56 @@ "9" :> 57 @@
    ";" :> 59 @@ "<" :> 60 @@ "=" :> 61 @@ ">" :> 62 @@ "?" :> 63 @@
    "A" :> 65 @@ "E" :> 69 @@ "F" :> 70 @@ "L" :> 76 @@ "N" :> 78 @@
    "R" :> 82 @@ "T" :> 84 @@ "U" :> 85 @@ "Z" :> 90 @@
    "[" :> 91 @@ "\\" :> 92 @@ "]" :> 93 @@ "_" :> 95 @@
    "a" :> 97 @@ "b" :> 98 @@ "c" :> 99 @@ "d" :> 100 @@ "e" :> 101 @@
    "f" :> 102 @@ "g" :> 103 @@ "h" :> 104 @@ "i" :> 105 @@ "j" :> 106 @@
    "k" :> 107 @@ "l" :> 108 @@ "n" :> 110 @@ "o" :> 111 @@ "p" :> 112 @@
    "r" :> 114 @@ "s" :> 115 @@ "t" :> 116 @@ "u" :> 117 @@ "w" :> 119 @@
    "x" :> 120 @@ "z" :> 122 @@ "{" :> 123 @@ "}" :> 125

\* A string literal: the characters named by q, in order.
Chars(q) == [i \in 1..Len(q) |-> Ord[q[i]]]

\* A range pattern lo..=hi.
InRange(c, lo, hi) == Ord[lo] <= c /\ c <= Ord[hi]

\* The patterns ' ' | '\r' | '\n' | '\t'.
IsBlank(c) == c \in {Ord[" "], Ord["CR"], Ord["LF"], Ord["TAB"]}

RECURSIVE BitOr(_, _)
\* a | b on unsigned integers.
BitOr(a, b) ==
    IF a = 0 THEN b
    ELSE IF b = 0 THEN a
    ELSE (IF a % 2 = 1 \/ b % 2 = 1 THEN 1 ELSE 0) + 2 * BitOr(a \div 2, b \div 2)

RECURSIVE BitXor(_, _)
\* a ^ b on unsigned integers.
BitXor(a, b) ==
    IF a = 0 THEN b
    ELSE IF b = 0 THEN a
    ELSE (IF a % 2 = b % 2 THEN 0 ELSE 1) + 2 * BitXor(a \div 2, b \div 2)

\* cp << k on a u32: the bits shifted out are dropped.
Shl(cp, k) == (cp % (2 ^ (32 - k))) * (2 ^ k)

\* char::try_from(u32) succeeds on the Unicode scalar values.
IsScalarValue(x) == x <= 1114111 /\ ~(55296 <= x /\ x <= 57343)

\* c.to_uppercase().next().unwrap(), on ASCII.
ToUpper(c) == IF InRange(c, "a", "z") THEN c - 32 ELSE c

\* char::to_lowercase as String::to_lowercase applies it, on ASCII.
ToLower(c) == IF InRange(c, "A", "Z") THEN c + 32 ELSE c

-----------------------------------------------------------------------------
(* lex.rs: positions, tokens, errors *)

\* enum State
States ==
    {"Initial", "PrepareComment", "PrepareAssignment", "SingleQuote", "DoubleQuote",
     "Integer", "IntegerDecimal", "Identifier", "PrepareOpenTag", "PrepareCloseTag",
     "LineComment", "MultiLineComment", "MultiLineCommentPrepareExit", "Decimal",
     "SingleQuoteEscape", "DoubleQuoteEscape", "DoubleQuoteEscapeControl",
     "DoubleQuoteEscapeHex", "DoubleQuoteEscapeOctal2", "DoubleQuoteEscapeHexBound",
     "DoubleQuoteEscapeHex2", "PHPTag0", "PHPTag1", "PHPTag2", "DoubleQuoteEscapeOctal3"}

\* Position::default()
PositionDefault == [index |-> 0, line |-> 0, column |-> 0]

\* Fault: an advance that counts the newline in the column too.
advanceOverNewline(p, new_line) ==
    IF new_line
    THEN [index |-> p.index + 1, line |-> p.line + 1, column |-> p.column + 1]
    ELSE [index |-> p.index + 1, line |-> p.line, column |-> p.column + 1]

\* Position::advance
advance(p, new_line) ==
    IF new_line
    THEN [index |-> p.index + 1, line |-> p.line + 1, column |-> 0]
    ELSE [index |-> p.index + 1, line |-> p.line, column |-> p.column + 1]

\* A (Position, Token) pair as handed to the observer; the variants without
\* a payload carry the empty text.
Tok(pos, kind, txt) == [pos |-> pos, kind |-> kind, text |-> txt]

\* Ok(()) of lex and eof.
LexOk == [kind |-> "Ok"]

\* LexError::new(position, state, kind); kind is EOF, Unexpected(arg) or
\* InvalidUnicode(arg).
LexError(position, state, kind, arg) ==
    [kind |-> kind, position |-> position, state |-> state, arg |-> arg]

\* The abort of `u8::try_from(*cp).unwrap()` on a value above 255.
LexPanic(position, state, arg) ==
    [kind |-> "Panic", position |-> position, state |-> state, arg |-> arg]

\* The locals deser_str hands to lex: State::default(), Position::default()
\* twice, String::new(), 0, and the empty token queue.
LexerNew ==
    [s |-> "Initial", p |-> PositionDefault, t |-> PositionDefault,
     b |-> <<>>, cp |-> 0, d |-> <<>>, res |-> LexOk]

\* d.update((pos, token))
update(L, pos, kind, txt) == [L EXCEPT !.d = Append(@, Tok(pos, kind, txt))]

\* *s = st
Goto(L, st) == [L EXCEPT !.s = st]

\* b.push(c)
Push(L, c) == [L EXCEPT !.b = Append(@, c)]

\* return Err(LexError::new(*p, *s, K::Unexpected(c)))
Unexpected(L, c) == [L EXCEPT !.res = LexError(L.p, L.s, "Unexpected", c)]

\* b.push(u8::try_from(*cp).unwrap().into())
PushByte(L) ==
    IF L.cp <= 255 THEN Push(L, L.cp)
    ELSE [L EXCEPT !.res = LexPanic(L.p, L.s, L.cp)]

\* Runs `next` on L unless the push before it aborted.
Then(L, next) == IF L.res.kind = "Ok" THEN next ELSE L

-----------------------------------------------------------------------------
(* lex.rs: the automaton, one operator per state.  L.p is the position    *)
(* already advanced over c.                                               *)

\* State::Initial
lexInitial(L, c) ==
    CASE IsBlank(c) -> L
      [] c = Ord["/"] -> Goto(L, "PrepareComment")
      [] c = Ord["["] -> update(L, L.p, "OpenSet", <<>>)
      [] c = Ord["]"] -> update(L, L.p, "CloseSet", <<>>)
      [] c = Ord["="] -> Goto(L, "PrepareAssignment")
      [] c = Ord["'"] -> [L EXCEPT !.t = L.p, !.s = "SingleQuote"]
      [] c = Ord["\""] -> [L EXCEPT !.t = L.p, !.s = "DoubleQuote"]
      [] InRange(c, "0", "9") -> [L EXCEPT !.t = L.p, !.b = <<c>>, !.s = "Integer"]
      [] InRange(c, "A", "Z") \/ InRange(c, "a", "z") \/ c = Ord["_"] ->
            [L EXCEPT !.t = L.p, !.b = <<c>>, !.s = "Identifier"]
      [] c = Ord[","] -> update(L, L.p, "Separator", <<>>)
      [] c = Ord["<"] -> Goto(L, "PrepareOpenTag")
      [] c = Ord["?"] -> Goto(L, "PrepareCloseTag")
      [] OTHER -> Unexpected(L, c)

\* State::PrepareComment
lexPrepareComment(L, c) ==
    CASE c = Ord["/"] -> Goto(L, "LineComment")
      [] c = Ord["*"] -> Goto(L, "MultiLineComment")
      [] OTHER -> Unexpected(L, c)

\* State::PrepareAssignment
lexPrepareAssignment(L, c) ==
    CASE c = Ord[">"] -> Goto(update(L, L.p, "Assignment", <<>>), "Initial")
      [] OTHER -> Unexpected(L, c)

\* State::SingleQuote
lexSingleQuote(L, c) ==
    CASE c = Ord["'"] -> Goto(update(L, L.t, "SingleQuote", L.b), "Initial")
      [] c = Ord["\\"] -> Goto(L, "SingleQuoteEscape")
      [] OTHER -> Push(L, c)

\* State::DoubleQuote
lexDoubleQuote(L, c) ==
    CASE c = Ord["\""] -> Goto(update(L, L.t, "DoubleQuote", L.b), "Initial")
      [] c = Ord["\\"] -> Goto(L, "DoubleQuoteEscape")
      [] OTHER -> Push(L, c)

\* The arms shared, letter for letter, by State::Integer, State::Identifier
\* and State::Decimal: the lexeme is emitted as `kind` and c is handled.
lexClose(L, c, kind) ==
    LET E == update(L, L.t, kind, L.b) IN
    CASE IsBlank(c) \/ c = Ord[";"] -> Goto(E, "Initial")
      [] c = Ord["/"] -> Goto(E, "PrepareComment")
      [] c = Ord["["] -> Goto(update(E, L.p, "OpenSet", <<>>), "Initial")
      [] c = Ord["]"] -> Goto(update(E, L.p, "CloseSet", <<>>), "Initial")
      [] c = Ord["="] -> Goto(E, "PrepareAssignment")
      [] c = Ord["'"] -> [E EXCEPT !.b = <<>>, !.t = L.p, !.s = "SingleQuote"]
      [] c = Ord[","] -> Goto(update(E, L.p, "Separator", <<>>), "Initial")
      [] c = Ord["\""] -> [E EXCEPT !.b = <<>>, !.t = L.p, !.s = "DoubleQuote"]

\* The characters lexClose has an arm for.
IsClosing(c) ==
    \/ IsBlank(c)
    \/ c \in {Ord[";"], Ord["/"], Ord["["], Ord["]"], Ord["="], Ord["'"],
              Ord[","], Ord["\""]}

\* State::Integer
lexInteger(L, c) ==
    CASE IsClosing(c) -> lexClose(L, c, "Int")
      [] InRange(c, "0", "0") \/ c \in {Ord["E"], Ord["e"], Ord["+"]} -> Push(L, c)
      [] c \in {Ord["-"], Ord["."]} -> Goto(Push(L, c), "Decimal")
      [] OTHER -> Unexpected(L, c)

\* State::IntegerDecimal
lexIntegerDecimal(L, c) ==
    CASE InRange(c, "0", "9") -> Goto(Push(L, c), "Integer")
      [] c = Ord["."] -> Goto(Push(L, Ord["."]), "Decimal")
      [] OTHER -> Unexpected(L, c)

\* State::Identifier
lexIdentifier(L, c) ==
    CASE IsClosing(c) -> lexClose(L, c, "Identifier")
      [] c = Ord["<"] -> Goto(update(L, L.t, "Identifier", L.b), "PrepareOpenTag")
      [] c = Ord["?"] -> Goto(update(L, L.t, "Identifier", L.b), "PrepareCloseTag")
      [] InRange(c, "0", "9") \/ c = Ord["_"] \/ InRange(c, "a", "z")
            \/ InRange(c, "A", "Z") -> Push(L, c)
      [] OTHER -> Unexpected(L, c)

\* State::PrepareOpenTag
lexPrepareOpenTag(L, c) ==
    CASE c = Ord["?"] -> Goto(L, "PHPTag0")
      [] OTHER -> Unexpected(L, c)

\* State::PrepareCloseTag
lexPrepareCloseTag(L, c) ==
    CASE c = Ord[">"] -> Goto(L, "Initial")
      [] OTHER -> Unexpected(L, c)

\* State::LineComment
lexLineComment(L, c) == IF c = Ord["LF"] THEN Goto(L, "Initial") ELSE L

\* State::MultiLineComment
lexMultiLineComment(L, c) ==
    IF c = Ord["*"] THEN Goto(L, "MultiLineCommentPrepareExit") ELSE L

\* State::MultiLineCommentPrepareExit
lexMultiLineCommentPrepareExit(L, c) ==
    CASE c = Ord["*"] -> L
      [] c = Ord["/"] -> Goto(L, "Initial")
      [] OTHER -> Goto(L, "MultiLineComment")

\* State::Decimal
lexDecimal(L, c) ==
    CASE IsClosing(c) -> lexClose(L, c, "Float")
      [] InRange(c, "0", "0")
            \/ c \in {Ord["E"], Ord["e"], Ord["+"], Ord["-"], Ord["."]} -> Push(L, c)
      [] OTHER -> Unexpected(L, c)

\* Fault: an escape state that drops the backslash before any character.
lexSingleQuoteEscapeDrops(L, c) == Goto(Push(L, c), "SingleQuote")

\* State::SingleQuoteEscape
lexSingleQuoteEscape(L, c) ==
    CASE c \in {Ord["\\"], Ord["'"]} -> Goto(Push(L, c), "SingleQuote")
      [] OTHER -> Goto(Push(Push(L, Ord["\\"]), c), "SingleQuote")

\* State::DoubleQuoteEscape
lexDoubleQuoteEscape(L, c) ==
    CASE c = Ord["a"] -> Goto(Push(L, Ord["BEL"]), "DoubleQuote")
      [] c = Ord["c"] -> Goto(L, "DoubleQuoteEscapeControl")
      [] c = Ord["e"] -> Goto(Push(L, Ord["ESC"]), "DoubleQuote")
      [] c = Ord["f"] -> Goto(Push(L, Ord["FF"]), "DoubleQuote")
      [] c = Ord["n"] -> Goto(Push(L, Ord["LF"]), "DoubleQuote")
      [] c = Ord["r"] -> Goto(Push(L, Ord["CR"]), "DoubleQuote")
      [] c = Ord["t"] -> Goto(Push(L, Ord["TAB"]), "DoubleQuote")
      [] c = Ord["$"] -> Goto(Push(L, Ord["$"]), "DoubleQuote")
      [] c = Ord["\""] -> Goto(Push(L, Ord["\""]), "DoubleQuote")
      [] c = Ord["\\"] -> Goto(Push(L, Ord["\\"]), "DoubleQuote")
      [] c = Ord["x"] -> [L EXCEPT !.cp = 0, !.s = "DoubleQuoteEscapeHex"]
      [] InRange(c, "0", "9") ->
            [L EXCEPT !.cp = c - Ord["0"], !.s = "DoubleQuoteEscapeOctal2"]
      [] OTHER -> Unexpected(L, c)

\* State::DoubleQuoteEscapeControl
lexDoubleQuoteEscapeControl(L, c) ==
    LET x == BitXor(ToUpper(c), 96) IN
    IF IsScalarValue(x) THEN Goto(Push(L, x), "DoubleQuote")
    ELSE [L EXCEPT !.res = LexError(L.p, L.s, "InvalidUnicode", x)]

\* State::DoubleQuoteEscapeHex
lexDoubleQuoteEscapeHex(L, c) ==
    CASE c = Ord["{"] -> Goto(L, "DoubleQuoteEscapeHexBound")
      [] InRange(c, "0", "9") ->
            [L EXCEPT !.cp = BitOr(@, c - Ord["0"]), !.s = "DoubleQuoteEscapeHex2"]
      [] InRange(c, "a", "f") ->
            [L EXCEPT !.cp = BitOr(@, c - Ord["a"]), !.s = "DoubleQuoteEscapeHex2"]
      [] InRange(c, "A", "F") ->
            [L EXCEPT !.cp = BitOr(@, c - Ord["A"]), !.s = "DoubleQuoteEscapeHex2"]
      [] OTHER -> Unexpected(L, c)

\* The three arms shared by DoubleQuoteEscapeOctal2, DoubleQuoteEscapeHex2
\* and DoubleQuoteEscapeOctal3: the pending byte is pushed, then c is handled.
lexEscapeEnd(L, c) ==
    LET B == PushByte(L) IN
    CASE c = Ord["\\"] -> Then(B, Goto(B, "DoubleQuoteEscape"))
      [] c = Ord["\""] ->
            Then(B, Goto(update(B, B.t, "DoubleQuote", B.b), "Initial"))
      [] OTHER -> Then(B, Goto(Push(B, c), "DoubleQuote"))

\* State::DoubleQuoteEscapeOctal2
lexDoubleQuoteEscapeOctal2(L, c) ==
    CASE InRange(c, "0", "7") ->
            [L EXCEPT !.cp = BitOr(Shl(@, 3), c - Ord["0"]),
                      !.s = "DoubleQuoteEscapeOctal3"]
      [] OTHER -> lexEscapeEnd(L, c)

\* State::DoubleQuoteEscapeHexBound
lexDoubleQuoteEscapeHexBound(L, c) ==
    CASE InRange(c, "0", "9") ->
            [L EXCEPT !.cp = BitOr(Shl(@, 4), c - Ord["0"]), !.s = "DoubleQuoteEscapeHex2"]
      [] InRange(c, "a", "f") ->
            [L EXCEPT !.cp = BitOr(Shl(@, 4), c - Ord["a"]), !.s = "DoubleQuoteEscapeHex2"]
      [] InRange(c, "A", "F") ->
            [L EXCEPT !.cp = BitOr(Shl(@, 4), c - Ord["A"]), !.s = "DoubleQuoteEscapeHex2"]
      [] c = Ord["}"] ->
            IF IsScalarValue(L.cp) THEN Push(L, L.cp)
            ELSE [L EXCEPT !.res = LexError(L.p, L.s, "InvalidUnicode", L.cp)]
      [] OTHER -> Unexpected(L, c)

\* The digit arms of State::DoubleQuoteEscapeHex2: the digit's offset from
\* `base` is or-ed in, the byte pushed.
lexHex2Digit(L, c, base) ==
    LET A == [L EXCEPT !.cp = BitOr(Shl(@, 4), c - Ord[base])]
        B == PushByte(A)
    IN  Then(B, Goto(B, "DoubleQuote"))

\* State::DoubleQuoteEscapeHex2
lexDoubleQuoteEscapeHex2(L, c) ==
    CASE InRange(c, "0", "9") -> lexHex2Digit(L, c, "0")
      [] InRange(c, "a", "f") -> lexHex2Digit(L, c, "a")
      [] InRange(c, "A", "F") -> lexHex2Digit(L, c, "A")
      [] OTHER -> lexEscapeEnd(L, c)

\* State::PHPTag0
lexPHPTag0(L, c) ==
    CASE c = Ord["="] -> Goto(L, "Initial")
      [] c = Ord["p"] -> Goto(L, "PHPTag1")
      [] OTHER -> Unexpected(L, c)

\* State::PHPTag1
lexPHPTag1(L, c) ==
    CASE c = Ord["h"] -> Goto(L, "PHPTag2")
      [] OTHER -> Unexpected(L, c)

\* State::PHPTag2
lexPHPTag2(L, c) ==
    CASE c = Ord["p"] -> Goto(L, "Initial")
      [] OTHER -> Unexpected(L, c)

\* State::DoubleQuoteEscapeOctal3
lexDoubleQuoteEscapeOctal3(L, c) ==
    CASE InRange(c, "0", "7") ->
            LET A == [L EXCEPT !.cp = BitOr(Shl(@, 3), c - Ord["0"])]
                B == PushByte(A)
            IN  Then(B, Goto(B, "DoubleQuote"))
      [] OTHER -> lexEscapeEnd(L, c)

\* `match *s { ... }` of lex: the arm of the current state.
lexMatch(L, c) ==
    CASE L.s = "Initial" -> lexInitial(L, c)
      [] L.s = "PrepareComment" -> lexPrepareComment(L, c)
      [] L.s = "PrepareAssignment" -> lexPrepareAssignment(L, c)
      [] L.s = "SingleQuote" -> lexSingleQuote(L, c)
      [] L.s = "DoubleQuote" -> lexDoubleQuote(L, c)
      [] L.s = "Integer" -> lexInteger(L, c)
      [] L.s = "IntegerDecimal" -> lexIntegerDecimal(L, c)
      [] L.s = "Identifier" -> lexIdentifier(L, c)
      [] L.s = "PrepareOpenTag" -> lexPrepareOpenTag(L, c)
      [] L.s = "PrepareCloseTag" -> lexPrepareCloseTag(L, c)
      [] L.s = "LineComment" -> lexLineComment(L, c)
      [] L.s = "MultiLineComment" -> lexMultiLineComment(L, c)
      [] L.s = "MultiLineCommentPrepareExit" -> lexMultiLineCommentPrepareExit(L, c)
      [] L.s = "Decimal" -> lexDecimal(L, c)
      [] L.s = "SingleQuoteEscape" -> lexSingleQuoteEscape(L, c)
      [] L.s = "DoubleQuoteEscape" -> lexDoubleQuoteEscape(L, c)
      [] L.s = "DoubleQuoteEscapeControl" -> lexDoubleQuoteEscapeControl(L, c)
      [] L.s = "DoubleQuoteEscapeHex" -> lexDoubleQuoteEscapeHex(L, c)
      [] L.s = "DoubleQuoteEscapeOctal2" -> lexDoubleQuoteEscapeOctal2(L, c)
      [] L.s = "DoubleQuoteEscapeHexBound" -> lexDoubleQuoteEscapeHexBound(L, c)
      [] L.s = "DoubleQuoteEscapeHex2" -> lexDoubleQuoteEscapeHex2(L, c)
      [] L.s = "PHPTag0" -> lexPHPTag0(L, c)
      [] L.s = "PHPTag1" -> lexPHPTag1(L, c)
      [] L.s = "PHPTag2" -> lexPHPTag2(L, c)
      [] L.s = "DoubleQuoteEscapeOctal3" -> lexDoubleQuoteEscapeOctal3(L, c)

\* One turn of `for c in source`: p.advance(c == '\n'), then the match.
lexChar(L, c) == lexMatch([L EXCEPT !.p = advance(@, c = Ord["LF"])], c)

RECURSIVE lexRange(_, _, _, _)
\* Fault: a loop that goes on over the text after an error.
lexRangeOn(L, source, lo, hi) ==
    IF lo > hi THEN L
    ELSE IF lo = hi THEN lexChar(L, source[lo])
    ELSE LET mid == (lo + hi) \div 2 IN
         lexRange(lexRange(L, source, lo, mid), source, mid + 1, hi)

\* The turns of `for c in source` for the characters lo..hi of source, none
\* of them taken once an error is returned.  The range is halved rather
\* than walked, which keeps the evaluation shallow; the turns and their
\* order are the loop's.
lexRange(L, source, lo, hi) ==
    IF lo > hi \/ L.res.kind # "Ok" THEN L
    ELSE IF lo = hi THEN lexChar(L, source[lo])
    ELSE LET mid == (lo + hi) \div 2 IN
         lexRange(lexRange(L, source, lo, mid), source, mid + 1, hi)

\* lex(state, position, token_position, buffer, codepoint, source, dest)
lex(L, source) == lexRange(L, source, 1, Len(source))

\* Fault: an eof that lets an unterminated construct pass.
eofLenient(L) ==
    CASE L.s = "Integer" -> update(L, L.t, "Int", L.b)
      [] L.s = "Identifier" -> update(L, L.t, "Identifier", L.b)
      [] L.s = "Decimal" -> update(L, L.t, "Float", L.b)
      [] L.s \in {"SingleQuote", "DoubleQuote"} -> [L EXCEPT !.res = LexError(L.p, L.s, "EOF", 0)]
      [] OTHER -> L

\* eof(state, position, token_position, buffer, dest)
eof(L) ==
    CASE L.s \in {"Initial", "LineComment", "MultiLineComment",
                  "MultiLineCommentPrepareExit"} -> L
      [] L.s = "Integer" -> update(L, L.t, "Int", L.b)
      [] L.s = "Identifier" -> update(L, L.t, "Identifier", L.b)
      [] L.s = "Decimal" -> update(L, L.t, "Float", L.b)
      [] OTHER -> [L EXCEPT !.res = LexError(L.p, L.s, "EOF", 0)]

-----------------------------------------------------------------------------
(* kvp.rs: values and pairs *)

\* Option<String>
None == [some |-> FALSE]
Some(x) == [some |-> TRUE, v |-> x]

\* enum Value (V::Null, V::Bool, ...).  An Int holds its i64 as sign and decimal digits without
\* leading zeros, a Float its f64 as sign, significant digits (no leading or
\* trailing zero, none for zero) and power of ten: digits * 10^exp.
VNull == [tag |-> "Null"]
VBool(x) == [tag |-> "Bool", v |-> x]
VInt(x) == [tag |-> "Int", v |-> x]
VFloat(x) == [tag |-> "Float", v |-> x]
VStr(x) == [tag |-> "Str", v |-> x]
VSet(x) == [tag |-> "Set", v |-> x]

\* KeyValuePair::new
KeyValuePair(key, value) == [key |-> key, value |-> value]

-----------------------------------------------------------------------------
(* The standard library's number parsing, on digit strings *)

IsDigit(c) == InRange(c, "0", "9")

RECURSIVE StripLeadingZeros(_)
\* The digits without their leading zeros.
StripLeadingZeros(x) ==
    IF x # <<>> /\ x[1] = Ord["0"] THEN StripLeadingZeros(Tail(x)) ELSE x

RECURSIVE StripTrailingZeros(_)
\* The digits without their trailing zeros.
StripTrailingZeros(x) ==
    IF x # <<>> /\ x[Len(x)] = Ord["0"]
    THEN StripTrailingZeros(SubSeq(x, 1, Len(x) - 1)) ELSE x

RECURSIVE DigitsLeq(_, _)
\* a <= b for digit strings of one length.
DigitsLeq(a, b) ==
    IF a = <<>> THEN TRUE
    ELSE IF a[1] # b[1] THEN a[1] < b[1]
    ELSE DigitsLeq(Tail(a), Tail(b))

\* i64::MAX and the magnitude of i64::MIN, in digits.
I64MaxDigits ==
    Chars(<<"9","2","2","3","3","7","2","0","3","6","8","5","4","7","7","5","8","0","7">>)
I64MinDigits ==
    Chars(<<"9","2","2","3","3","7","2","0","3","6","8","5","4","7","7","5","8","0","8">>)

\* i64::from_str: an optional sign, then one digit or more, within range.
ParseI64(x) ==
    LET signed == x # <<>> /\ x[1] \in {Ord["+"], Ord["-"]}
        neg == x # <<>> /\ x[1] = Ord["-"]
        body == IF signed THEN Tail(x) ELSE x
        mag == StripLeadingZeros(body)
        lim == IF neg THEN I64MinDigits ELSE I64MaxDigits
    IN  IF body = <<>> \/ \E i \in 1..Len(body) : ~IsDigit(body[i])
        THEN [ok |-> FALSE]
        ELSE IF Len(mag) > Len(lim) \/ (Len(mag) = Len(lim) /\ ~DigitsLeq(mag, lim))
        THEN [ok |-> FALSE]
        ELSE [ok |-> TRUE, v |-> [neg |-> neg /\ mag # <<>>, digits |-> mag]]

RECURSIVE DigitsValue(_)
\* The number a short digit string denotes.
DigitsValue(x) ==
    IF x = <<>> THEN 0 ELSE 10 * DigitsValue(SubSeq(x, 1, Len(x) - 1)) + (x[Len(x)] - Ord["0"])

\* f64::from_str reads decimal notation, sign? digits* ('.' digits*)?
\* ([eE] sign? digits+)?, left to right; this is its reader before the first
\* character.  (`inf` and `nan` are not among the texts the Decimal state
\* can emit.)
F64New ==
    [st |-> "start", ok |-> TRUE, neg |-> FALSE, mant |-> <<>>, nfrac |-> 0,
     eneg |-> FALSE, edigits |-> <<>>]

\* The reader over the character c.
F64Char(S, c) ==
    CASE S.st = "start" /\ c \in {Ord["+"], Ord["-"]} ->
            [S EXCEPT !.st = "mant", !.neg = (c = Ord["-"])]
      [] S.st \in {"start", "mant"} /\ IsDigit(c) ->
            [S EXCEPT !.st = "mant", !.mant = Append(@, c)]
      [] S.st \in {"start", "mant"} /\ c = Ord["."] -> [S EXCEPT !.st = "frac"]
      [] S.st = "frac" /\ IsDigit(c) ->
            [S EXCEPT !.mant = Append(@, c), !.nfrac = @ + 1]
      [] S.st \in {"mant", "frac"} /\ c \in {Ord["e"], Ord["E"]} -> [S EXCEPT !.st = "exp0"]
      [] S.st = "exp0" /\ c \in {Ord["+"], Ord["-"]} ->
            [S EXCEPT !.st = "exp1", !.eneg = (c = Ord["-"])]
      [] S.st \in {"exp0", "exp1", "exp"} /\ IsDigit(c) ->
            [S EXCEPT !.st = "exp", !.edigits = Append(@, c)]
      [] OTHER -> [S EXCEPT !.ok = FALSE]

RECURSIVE F64Read(_, _)
\* The reader over all of x.
F64Read(S, x) == IF x = <<>> THEN S ELSE F64Read(F64Char(S, Head(x)), Tail(x))

\* The f64 read: sign, significant digits and power of ten.  Exact for up
\* to 15 significant digits and exponents in f64's range.
F64Value(S) ==
    LET lead == StripLeadingZeros(S.mant)
        sig == StripTrailingZeros(lead)
        e10 == (IF S.eneg THEN -1 ELSE 1) * DigitsValue(S.edigits)
    IN  [neg |-> S.neg, digits |-> sig,
         exp |-> IF sig = <<>> THEN 0 ELSE e10 - S.nfrac + (Len(lead) - Len(sig))]

\* f64::from_str: the text must end in the mantissa or after an exponent
\* digit, and the mantissa must hold a digit.
ParseF64(x) ==
    LET S == F64Read(F64New, x) IN
    IF S.ok /\ S.st \in {"mant", "frac", "exp"} /\ S.mant # <<>>
    THEN [ok |-> TRUE, v |-> F64Value(S)]
    ELSE [ok |-> FALSE]

-----------------------------------------------------------------------------
(* deser.rs: the token pass of deser_str *)

\* DeserError::new(position, kind); arg is the payload of the kind, if any.
DeserError(position, kind, arg) ==
    [kind |-> "Err", position |-> position, err |-> kind, arg |-> arg]

\* impl From<LexError> for DeserError
FromLexError(e) ==
    DeserError(e.position, "Lex", [kind |-> e.kind, arg |-> e.arg])

\* Ok(current)
DeserOk(tree) == [kind |-> "Ok", tree |-> tree]

\* The process died in an `unwrap()`.
Aborted == [kind |-> "Panic"]

\* The locals of deser_str before its token loop; i is the place in tokens.
DeserNew ==
    [data |-> <<>>, current |-> <<>>, pair_key |-> None, pair_value |-> VNull,
     pair_set |-> FALSE, lexer_break |-> FALSE, first_open |-> TRUE,
     i |-> 1, res |-> [kind |-> "Ok"]]

\* return Err(E::new(p, kind))
deserFail(D, p, kind, arg) == [D EXCEPT !.res = DeserError(p, kind, arg)]

\* Fault: a commit that takes a staged Null for nothing staged.
deserCommitSkipsNull(D) ==
    IF D.pair_set /\ D.pair_value # VNull
    THEN [D EXCEPT !.current = Append(@, KeyValuePair(D.pair_key, D.pair_value)),
                   !.pair_key = None, !.pair_value = VNull, !.pair_set = FALSE]
    ELSE [D EXCEPT !.pair_set = FALSE]

\* The commit of the staged pair, in T::Separator and T::CloseSet.
deserCommit(D) ==
    IF D.pair_set
    THEN [D EXCEPT !.current = Append(@, KeyValuePair(D.pair_key, D.pair_value)),
                   !.pair_key = None, !.pair_value = VNull, !.pair_set = FALSE]
    ELSE D

\* T::Float(x)
deserFloat(D, p, x) ==
    IF D.pair_set THEN deserFail(D, p, "MissingComma", <<>>)
    ELSE LET r == ParseF64(x) IN
         IF r.ok THEN [D EXCEPT !.pair_value = VFloat(r.v), !.pair_set = TRUE]
         ELSE deserFail(D, p, "IntCast", x)

\* T::Int(x)
deserInt(D, p, x) ==
    IF D.pair_set THEN deserFail(D, p, "MissingComma", <<>>)
    ELSE LET r == ParseI64(x) IN
         IF r.ok THEN [D EXCEPT !.pair_value = VInt(r.v), !.pair_set = TRUE]
         ELSE deserFail(D, p, "IntCast", x)

\* Fault: a string arm without the pair_set test, the later value winning.
deserStringOver(D, p, x) ==
    [D EXCEPT !.pair_value = VStr(x), !.pair_set = TRUE]

\* T::DoubleQuote(x) | T::SingleQuote(x)
deserString(D, p, x) ==
    IF D.pair_set THEN deserFail(D, p, "MissingComma", <<>>)
    ELSE [D EXCEPT !.pair_value = VStr(x), !.pair_set = TRUE]

\* Fault: an assignment arm that leaves pair_set as it was.
deserAssignmentKeepsStaged(D, p) ==
    LET pv == D.pair_value IN
    IF pv.tag = "Str"
    THEN [D EXCEPT !.pair_key = Some(pv.v), !.pair_value = VNull]
    ELSE deserFail([D EXCEPT !.pair_value = VNull], p, "InvalidKey", <<>>)

\* T::Assignment
deserAssignment(D, p) ==
    LET pv == D.pair_value IN
    IF pv.tag = "Str"
    THEN [D EXCEPT !.pair_key = Some(pv.v), !.pair_value = VNull, !.pair_set = FALSE]
    ELSE deserFail([D EXCEPT !.pair_value = VNull], p, "InvalidKey", <<>>)

\* x.to_lowercase()
to_lowercase(x) == [i \in 1..Len(x) |-> ToLower(x[i])]

\* The arms "true", "false" and "null" of T::Identifier.
deserStage(D, p, v) ==
    IF D.pair_set THEN deserFail(D, p, "MissingComma", <<>>)
    ELSE [D EXCEPT !.pair_value = v, !.pair_set = TRUE]

\* Fault: an identifier arm that reports the lower-cased text.
deserIdentifierLowered(D, p, x) ==
    LET lower == to_lowercase(x) IN
    CASE lower = Chars(<<"t","r","u","e">>) -> deserStage(D, p, VBool(TRUE))
      [] lower = Chars(<<"f","a","l","s","e">>) -> deserStage(D, p, VBool(FALSE))
      [] lower = Chars(<<"n","u","l","l">>) -> deserStage(D, p, VNull)
      [] lower = Chars(<<"r","e","t","u","r","n">>) -> D
      [] OTHER -> deserFail(D, p, "UnexpectedIdentifier", lower)

\* T::Identifier(x)
deserIdentifier(D, p, x) ==
    LET lower == to_lowercase(x) IN
    CASE lower = Chars(<<"t","r","u","e">>) -> deserStage(D, p, VBool(TRUE))
      [] lower = Chars(<<"f","a","l","s","e">>) -> deserStage(D, p, VBool(FALSE))
      [] lower = Chars(<<"n","u","l","l">>) -> deserStage(D, p, VNull)
      [] lower = Chars(<<"r","e","t","u","r","n">>) -> D
      [] OTHER -> deserFail(D, p, "UnexpectedIdentifier", x)

\* Fault: an open arm that leaves the pending key where it is instead of
\* putting it on the stack with the siblings.
deserOpenSetKeyless(D, p) ==
    IF D.pair_set THEN deserFail(D, p, "MissingComma", <<>>)
    ELSE IF ~D.first_open
    THEN [D EXCEPT !.data = Append(@, <<None, D.current>>),
                   !.current = <<>>, !.pair_value = VNull]
    ELSE [D EXCEPT !.first_open = FALSE]

\* T::OpenSet
deserOpenSet(D, p) ==
    IF D.pair_set THEN deserFail(D, p, "MissingComma", <<>>)
    ELSE IF ~D.first_open
    THEN [D EXCEPT !.data = Append(@, <<D.pair_key, D.current>>),
                   !.current = <<>>, !.pair_key = None, !.pair_value = VNull]
    ELSE [D EXCEPT !.first_open = FALSE]

\* T::Separator (its println! writes to stdout only)
deserSeparator(D) == deserCommit(D)

\* Fault: a close arm that pops without the test of data.len(), the
\* `unwrap()` aborting on an empty stack.
deserCloseSetUnguarded(D) ==
    LET C == deserCommit(D) IN
    IF Len(C.data) = 0 THEN [C EXCEPT !.res = Aborted]
    ELSE LET top == C.data[Len(C.data)]
         IN  [C EXCEPT !.data = SubSeq(@, 1, Len(@) - 1),
                       !.current = Append(top[2], KeyValuePair(top[1], VSet(C.current)))]

\* Fault: a close arm that drops the staged pair instead of committing it.
deserCloseSetDrops(D) ==
    LET C == [D EXCEPT !.pair_key = None, !.pair_value = VNull, !.pair_set = FALSE] IN
    IF Len(C.data) = 0 THEN [C EXCEPT !.lexer_break = TRUE]
    ELSE LET top == C.data[Len(C.data)]
         IN  [C EXCEPT !.data = SubSeq(@, 1, Len(@) - 1),
                       !.current = Append(top[2], KeyValuePair(top[1], VSet(C.current)))]

\* T::CloseSet
deserCloseSet(D) ==
    LET C == deserCommit(D) IN
    IF Len(C.data) = 0 THEN [C EXCEPT !.lexer_break = TRUE]
    ELSE LET C2 == deserCommit(C)
             top == C2.data[Len(C2.data)]
         IN  [C2 EXCEPT !.data = SubSeq(@, 1, Len(@) - 1),
                        !.current = Append(top[2], KeyValuePair(top[1], VSet(C2.current)))]

\* `match t { ... }` for the token tok, one turn of `for (p, t) in tokens`.
deserToken(D, tok) ==
    LET N == [D EXCEPT !.i = @ + 1] IN
    CASE tok.kind = "Float" -> deserFloat(N, tok.pos, tok.text)
      [] tok.kind = "Int" -> deserInt(N, tok.pos, tok.text)
      [] tok.kind \in {"DoubleQuote", "SingleQuote"} -> deserString(N, tok.pos, tok.text)
      [] tok.kind = "Assignment" -> deserAssignment(N, tok.pos)
      [] tok.kind = "Identifier" -> deserIdentifier(N, tok.pos, tok.text)
      [] tok.kind = "OpenSet" -> deserOpenSet(N, tok.pos)
      [] tok.kind = "Separator" -> deserSeparator(N)
      [] tok.kind = "CloseSet" -> deserCloseSet(N)

\* Fault: a loop without `if lexer_break { break; }`.
deserLoopDoneAtEnd(D, tokens) == D.i > Len(tokens)

\* The token loop is over: at the end of tokens, or at `if lexer_break`.
deserLoopDone(D, tokens) == D.i > Len(tokens) \/ D.lexer_break

RECURSIVE deserLoop(_, _)
\* `for (p, t) in tokens { ... }`, left at the first error.
deserLoop(D, tokens) ==
    IF D.res.kind # "Ok" \/ deserLoopDone(D, tokens) THEN D
    ELSE deserLoop(deserToken(D, tokens[D.i]), tokens)

\* What deser_str returns when lex or eof did not return Ok.
lexFailure(L) == IF L.res.kind = "Panic" THEN Aborted ELSE FromLexError(L.res)

\* What deser_str returns after its token loop.
deserReturn(D) == IF D.res.kind = "Ok" THEN DeserOk(D.current) ELSE D.res

\* deser_str(input)
deser_str(input) ==
    LET L1 == lex(LexerNew, input)
        L2 == eof(L1)
    IN  IF L1.res.kind # "Ok" THEN lexFailure(L1)
        ELSE IF L2.res.kind # "Ok" THEN lexFailure(L2)
        ELSE deserReturn(deserLoop(DeserNew, L2.d))

\* deser_file(path), on a file that can be opened or not and whose bytes are
\* UTF-8, the text content, or not: both unwrap() calls abort on an Err.
deser_file(file) ==
    IF ~file.opens THEN Aborted
    ELSE IF ~file.utf8 THEN Aborted
    ELSE deser_str(file.content)

-----------------------------------------------------------------------------
(* kvp.rs: php_str, the quoting scan *)

\* The characters with an arm of their own before '\'' in each mode.
IsControl(c) ==
    c \in {Ord["NUL"], Ord["BEL"], Ord["ESC"], Ord["FF"], Ord["CR"], Ord["LF"], Ord["TAB"]}

\* What those arms push on d.
ControlEscape(c) ==
    CASE c = Ord["NUL"] -> Chars(<<"\\", "0", "0", "0">>)
      [] c = Ord["BEL"] -> Chars(<<"\\", "a">>)
      [] c = Ord["ESC"] -> Chars(<<"\\", "e">>)
      [] c = Ord["FF"] -> Chars(<<"\\", "f">>)
      [] c = Ord["CR"] -> Chars(<<"\\", "r">>)
      [] c = Ord["LF"] -> Chars(<<"\\", "n">>)
      [] c = Ord["TAB"] -> Chars(<<"\\", "t">>)

\* d, s and state before the loop of php_str; seen is the part of input the
\* loop has been over.
PhpNew ==
    [seen |-> <<>>, d |-> Chars(<<"\"">>), s |-> Chars(<<"'">>), state |-> "Undecided"]

\* P::Undecided
phpUndecided(P, c) ==
    CASE IsControl(c) -> [P EXCEPT !.state = "Decided", !.d = @ \o ControlEscape(c)]
      [] c = Ord["'"] -> [P EXCEPT !.s = @ \o Chars(<<"\\", "'">>), !.d = Append(@, c)]
      [] c = Ord["\\"] ->
            [P EXCEPT !.state = "UndecidedEscape", !.d = @ \o Chars(<<"\\", "\\">>)]
      [] c = Ord["\""] -> [P EXCEPT !.s = Append(@, c), !.d = @ \o Chars(<<"\\", "\"">>)]
      [] c = Ord["$"] -> [P EXCEPT !.s = Append(@, c), !.d = @ \o Chars(<<"\\", "$">>)]
      [] OTHER -> [P EXCEPT !.s = Append(@, c), !.d = Append(@, c)]

\* P::UndecidedEscape
phpUndecidedEscape(P, c) ==
    CASE IsControl(c) -> [P EXCEPT !.state = "Decided", !.d = @ \o ControlEscape(c)]
      [] c = Ord["'"] ->
            [P EXCEPT !.state = "Undecided",
                      !.s = @ \o Chars(<<"\\", "\\", "\\", "'">>), !.d = Append(@, c)]
      [] c = Ord["\\"] ->
            [P EXCEPT !.s = @ \o Chars(<<"\\", "\\">>),
                      !.d = @ \o Chars(<<"\\", "\\", "\\", "\\">>)]
      [] c = Ord["\""] ->
            [P EXCEPT !.state = "Undecided",
                      !.s = @ \o Chars(<<"\\", "\"">>), !.d = @ \o Chars(<<"\\", "\"">>)]
      [] c = Ord["$"] ->
            [P EXCEPT !.state = "Undecided",
                      !.s = @ \o Chars(<<"\\", "$">>), !.d = @ \o Chars(<<"\\", "$">>)]
      [] OTHER ->
            [P EXCEPT !.state = "Undecided",
                      !.s = @ \o <<Ord["\\"], c>>, !.d = Append(@, c)]

\* Fault: a Decided mode that takes '\\' for the start of an escape, as
\* Undecided does.
phpDecidedReopened(P, c) ==
    CASE IsControl(c) -> [P EXCEPT !.d = @ \o ControlEscape(c)]
      [] c = Ord["'"] -> [P EXCEPT !.d = Append(@, c)]
      [] c = Ord["\\"] ->
            [P EXCEPT !.state = "UndecidedEscape", !.d = @ \o Chars(<<"\\", "\\">>)]
      [] c = Ord["\""] -> [P EXCEPT !.d = @ \o Chars(<<"\\", "\"">>)]
      [] c = Ord["$"] -> [P EXCEPT !.d = @ \o Chars(<<"\\", "$">>)]
      [] OTHER -> [P EXCEPT !.d = Append(@, c)]

\* P::Decided
phpDecided(P, c) ==
    CASE IsControl(c) -> [P EXCEPT !.d = @ \o ControlEscape(c)]
      [] c = Ord["'"] -> [P EXCEPT !.d = Append(@, c)]
      [] c = Ord["\\"] -> [P EXCEPT !.d = @ \o Chars(<<"\\", "\\">>)]
      [] c = Ord["\""] -> [P EXCEPT !.d = @ \o Chars(<<"\\", "\"">>)]
      [] c = Ord["$"] -> [P EXCEPT !.d = @ \o Chars(<<"\\", "$">>)]
      [] OTHER -> [P EXCEPT !.d = Append(@, c)]

\* One turn of `for c in input.chars()`.
phpChar(P, c) ==
    LET Q == [P EXCEPT !.seen = Append(@, c)] IN
    CASE P.state = "Undecided" -> phpUndecided(Q, c)
      [] P.state = "UndecidedEscape" -> phpUndecidedEscape(Q, c)
      [] P.state = "Decided" -> phpDecided(Q, c)

\* The final `match state` of php_str.
phpFinish(P) ==
    CASE P.state = "Undecided" -> Append(P.s, Ord["'"])
      [] P.state = "UndecidedEscape" -> P.s \o Chars(<<"\\", "\\", "'">>)
      [] P.state = "Decided" -> Append(P.d, Ord["\""])

RECURSIVE phpLoop(_, _)
\* The loop of php_str over input.
phpLoop(P, input) ==
    IF input = <<>> THEN P ELSE phpLoop(phpChar(P, Head(input)), Tail(input))

\* php_str(input)
php_str(input) == phpFinish(phpLoop(PhpNew, input))

-----------------------------------------------------------------------------
(* kvp.rs: Display; ser.rs: ser_str *)

\* format!("{}", x) for an i64.
FmtI64(x) ==
    (IF x.neg THEN <<Ord["-"]>> ELSE <<>>)
        \o (IF x.digits = <<>> THEN <<Ord["0"]>> ELSE x.digits)

\* n zeros.
Zeros(n) == [i \in 1..n |-> Ord["0"]]

\* format!("{}", x) for an f64: plain decimal notation, no exponent, for a
\* finite one; "NaN", "inf" and "-inf" for the others.
FmtF64(x) ==
    IF "special" \in DOMAIN x
    THEN IF x.special = "nan" THEN Chars(<<"N", "a", "N">>)
         ELSE (IF x.neg THEN <<Ord["-"]>> ELSE <<>>) \o Chars(<<"i", "n", "f">>)
    ELSE
    LET n == Len(x.digits)
        body == CASE n = 0 -> <<Ord["0"]>>
                  [] n > 0 /\ x.exp >= 0 -> x.digits \o Zeros(x.exp)
                  [] n > 0 /\ x.exp < 0 /\ n > -x.exp ->
                        SubSeq(x.digits, 1, n + x.exp) \o <<Ord["."]>>
                            \o SubSeq(x.digits, n + x.exp + 1, n)
                  [] OTHER -> <<Ord["0"], Ord["."]>> \o Zeros(-x.exp - n) \o x.digits
    IN  (IF x.neg THEN <<Ord["-"]>> ELSE <<>>) \o body

\* s.contains('.')
ContainsDot(s) == \E i \in 1..Len(s) : s[i] = Ord["."]

RECURSIVE FmtValue(_)
RECURSIVE FmtPairs(_)
\* impl Display for KeyValuePair
FmtKeyValuePair(kvp) ==
    IF kvp.key.some
    THEN php_str(kvp.key.v) \o Chars(<<" ", "=", ">", " ">>) \o FmtValue(kvp.value)
    ELSE FmtValue(kvp.value)

\* The loop `write!(f, "{},", kvp)` of the V::Set arm.
FmtPairs(x) ==
    IF x = <<>> THEN <<>>
    ELSE FmtKeyValuePair(Head(x)) \o <<Ord[","]>> \o FmtPairs(Tail(x))

\* Fault: a Display that writes a Float as format!("{}", x) alone.
FmtValueBare(v) ==
    CASE v.tag = "Null" -> Chars(<<"n", "u", "l", "l">>)
      [] v.tag = "Bool" ->
            IF v.v THEN Chars(<<"t", "r", "u", "e">>) ELSE Chars(<<"f", "a", "l", "s", "e">>)
      [] v.tag = "Int" -> FmtI64(v.v)
      [] v.tag = "Float" -> FmtF64(v.v)
      [] v.tag = "Str" -> php_str(v.v)
      [] v.tag = "Set" -> <<Ord["["]>> \o FmtPairs(v.v) \o <<Ord["]"]>>

\* impl Display for Value
FmtValue(v) ==
    CASE v.tag = "Null" -> Chars(<<"n", "u", "l", "l">>)
      [] v.tag = "Bool" ->
            IF v.v THEN Chars(<<"t", "r", "u", "e">>) ELSE Chars(<<"f", "a", "l", "s", "e">>)
      [] v.tag = "Int" -> FmtI64(v.v)
      [] v.tag = "Float" ->
            LET s == FmtF64(v.v) IN
            IF ContainsDot(s) THEN s ELSE s \o Chars(<<".", "0">>)
      [] v.tag = "Str" -> php_str(v.v)
      [] v.tag = "Set" -> <<Ord["["]>> \o FmtPairs(v.v) \o <<Ord["]"]>>

\* KeyValuePair::key_prefix
key_prefix(kvp) ==
    IF kvp.key.some THEN php_str(kvp.key.v) \o Chars(<<" ", "=", ">", " ">>) ELSE <<>>

\* "<?php\nreturn [\n"
Preamble ==
    Chars(<<"<", "?", "p", "h", "p", "LF", "r", "e", "t", "u", "r", "n", " ", "[", "LF">>)

\* "];\n"
Closing == Chars(<<"]", ";", "LF">>)

\* tabs.pop()
Pop(tabs) == SubSeq(tabs, 1, Len(tabs) - 1)

RECURSIVE ser_str_ex(_, _)
\* Fault: a turn that writes no comma after the bracket closing a set.
serPairNoComma(B, kvp) ==
    LET B1 == [B EXCEPT !.buf = @ \o B.tabs \o key_prefix(kvp)]
        B2 == IF kvp.value.tag = "Set"
              THEN IF kvp.value.v = <<>>
                   THEN [B1 EXCEPT !.buf = @ \o Chars(<<"[", "]">>)]
                   ELSE LET I == ser_str_ex([B1 EXCEPT !.buf = Append(@, Ord["["]),
                                                       !.tabs = Append(@, Ord["TAB"])],
                                            kvp.value.v)
                        IN  [I EXCEPT !.tabs = Pop(@), !.buf = Append(@, Ord["]"])]
              ELSE [B1 EXCEPT !.buf = @ \o FmtValue(kvp.value)]
    IN  [B2 EXCEPT !.buf = @ \o (IF kvp.value.tag = "Set" /\ kvp.value.v # <<>>
                              THEN <<Ord["LF"]>> ELSE Chars(<<",", "LF">>))]

\* Fault: a turn that pushes a tab for a set without children and leaves it.
serPairIndents(B, kvp) ==
    LET B1 == [B EXCEPT !.buf = @ \o B.tabs \o key_prefix(kvp)]
        B2 == IF kvp.value.tag = "Set"
              THEN IF kvp.value.v = <<>>
                   THEN [B1 EXCEPT !.buf = @ \o Chars(<<"[", "]">>),
                                   !.tabs = Append(@, Ord["TAB"])]
                   ELSE LET I == ser_str_ex([B1 EXCEPT !.buf = Append(@, Ord["["]),
                                                       !.tabs = Append(@, Ord["TAB"])],
                                            kvp.value.v)
                        IN  [I EXCEPT !.tabs = Pop(@), !.buf = Append(@, Ord["]"])]
              ELSE [B1 EXCEPT !.buf = @ \o FmtValue(kvp.value)]
    IN  [B2 EXCEPT !.buf = @ \o Chars(<<",", "LF">>)]

\* One turn of `for kvp in output` of ser_str_ex, on B = [buf, tabs].
serPair(B, kvp) ==
    LET B1 == [B EXCEPT !.buf = @ \o B.tabs \o key_prefix(kvp)]
        B2 == IF kvp.value.tag = "Set"
              THEN IF kvp.value.v = <<>>
                   THEN [B1 EXCEPT !.buf = @ \o Chars(<<"[", "]">>)]
                   ELSE LET I == ser_str_ex([B1 EXCEPT !.buf = Append(@, Ord["["]),
                                                       !.tabs = Append(@, Ord["TAB"])],
                                            kvp.value.v)
                        IN  [I EXCEPT !.tabs = Pop(@), !.buf = Append(@, Ord["]"])]
              ELSE [B1 EXCEPT !.buf = @ \o FmtValue(kvp.value)]
    IN  [B2 EXCEPT !.buf = @ \o Chars(<<",", "LF">>)]

\* ser_str_ex(output, tabs, buf), on B = [buf, tabs].
ser_str_ex(B, output) ==
    IF output = <<>> THEN B ELSE ser_str_ex(serPair(B, Head(output)), Tail(output))

\* ser_str(output)
ser_str(output) ==
    ser_str_ex([buf |-> Preamble, tabs |-> <<Ord["TAB"]>>], output).buf \o Closing

-----------------------------------------------------------------------------
(* ser.rs: ser_write, on a sink that may fail *)

\* Ok(()) of a write.
IoOk == [kind |-> "Ok"]

\* The std::io::Error of the sink.
IoError == [kind |-> "Io"]

\* ser_write is entered: `tabs` is "\t"; the sink has been written nothing,
\* and fails at its failAt-th write (never, if failAt is 0) after taking the
\* first `part` characters of it.  late counts the writes made after the
\* failure.
WriterNew(failAt, part) ==
    [written |-> <<>>, calls |-> 0, late |-> 0, failAt |-> failAt, part |-> part,
     tabs |-> <<Ord["TAB"]>>, res |-> IoOk]

\* write!(&mut buf, ...) of the text str.
sinkWrite(W, str) ==
    LET n == W.calls + 1 IN
    IF W.res.kind # "Ok"
    THEN [W EXCEPT !.calls = n, !.late = @ + 1, !.written = @ \o str]
    ELSE IF n = W.failAt
    THEN [W EXCEPT !.calls = n, !.res = IoError,
                   !.written = @ \o SubSeq(str, 1, IF W.part < Len(str) THEN W.part
                                                   ELSE Len(str))]
    ELSE [W EXCEPT !.calls = n, !.written = @ \o str]

\* The `?` after a call: what follows is run, on what the call left, only
\* when the call returned Ok.
Try(W, next(_)) ==
    CHOOSE r \in { IF w.res.kind = "Ok" THEN next(w) ELSE w : w \in {W} } : TRUE

\* Fault: a call whose result is not looked at before what follows.
Ignore(W, next(_)) == CHOOSE r \in { next(w) : w \in {W} } : TRUE

RECURSIVE ser_buf_ex(_, _)
\* Fault: a turn that does not pop the tab it pushed for a nested set.
serBufPairDeeper(W, kvp) ==
    Try(sinkWrite(W, W.tabs \o key_prefix(kvp)), LAMBDA W1 :
    Try(IF kvp.value.tag = "Set"
        THEN IF kvp.value.v = <<>>
             THEN sinkWrite(W1, Chars(<<"[", "]">>))
             ELSE Try(sinkWrite(W1, <<Ord["["]>>), LAMBDA A :
                  Try(ser_buf_ex([A EXCEPT !.tabs = Append(@, Ord["TAB"])], kvp.value.v), LAMBDA I :
                  sinkWrite(I, <<Ord["]"]>>)))
        ELSE sinkWrite(W1, FmtValue(kvp.value)), LAMBDA W2 :
    sinkWrite(W2, Chars(<<",", "LF">>))))

\* Fault: a turn without the `?` after the call for a nested set: the error
\* of a child is dropped and the closing bracket written.
serBufPairCarriesOn(W, kvp) ==
    Try(sinkWrite(W, W.tabs \o key_prefix(kvp)), LAMBDA W1 :
    Try(IF kvp.value.tag = "Set"
        THEN IF kvp.value.v = <<>>
             THEN sinkWrite(W1, Chars(<<"[", "]">>))
             ELSE Try(sinkWrite(W1, <<Ord["["]>>), LAMBDA A :
                  Ignore(ser_buf_ex([A EXCEPT !.tabs = Append(@, Ord["TAB"])], kvp.value.v), LAMBDA I :
                  sinkWrite([I EXCEPT !.tabs = Pop(@)], <<Ord["]"]>>)))
        ELSE sinkWrite(W1, FmtValue(kvp.value)), LAMBDA W2 :
    sinkWrite(W2, Chars(<<",", "LF">>))))

\* One turn of `for kvp in output` of ser_buf_ex.
serBufPair(W, kvp) ==
    Try(sinkWrite(W, W.tabs \o key_prefix(kvp)), LAMBDA W1 :
    Try(IF kvp.value.tag = "Set"
        THEN IF kvp.value.v = <<>>
             THEN sinkWrite(W1, Chars(<<"[", "]">>))
             ELSE Try(sinkWrite(W1, <<Ord["["]>>), LAMBDA A :
                  Try(ser_buf_ex([A EXCEPT !.tabs = Append(@, Ord["TAB"])], kvp.value.v), LAMBDA I :
                  sinkWrite([I EXCEPT !.tabs = Pop(@)], <<Ord["]"]>>)))
        ELSE sinkWrite(W1, FmtValue(kvp.value)), LAMBDA W2 :
    sinkWrite(W2, Chars(<<",", "LF">>))))

\* ser_buf_ex(output, tabs, buf)
ser_buf_ex(W, output) ==
    IF output = <<>> THEN W
    ELSE Try(serBufPair(W, Head(output)), LAMBDA N : ser_buf_ex(N, Tail(output)))

\* ser_write(output, buf), on the writer W entered with.
ser_write(W, output) ==
    Try(sinkWrite(W, Preamble), LAMBDA W0 :
    Try(ser_buf_ex(W0, output), LAMBDA W1 :
    sinkWrite(W1, Closing)))

-----------------------------------------------------------------------------
(* Bounds and inputs *)

\* The most chunks of input text a run feeds to lex, the named inputs aside.
MaxFeed == 4

\* The longest string php_str is run on.
MaxStr == 3

\* A piece of input text; kind says what it is in the grammar of the format.
Chunk(kind, q) == [kind |-> kind, text |-> Chars(q)]

\* The pieces inputs are put together from.
Alphabet ==
    { Chunk("open", <<"[">>), Chunk("close", <<"]">>), Chunk("sep", <<",">>),
      Chunk("arrow", <<"=", ">">>), Chunk("str", <<"'", "a", "'">>),
      Chunk("scalar", <<"1", " ">>), Chunk("scalar", <<"1", "2", " ">>),
      Chunk("scalar", <<"1", ".", "0", " ">>), Chunk("scalar", <<"t", "r", "u", "e", " ">>),
      Chunk("scalar", <<"N", "u", "l", "l", " ">>), Chunk("word", <<"F", "o", "o", " ">>),
      Chunk("return", <<"r", "e", "t", "u", "r", "n", " ">>),
      Chunk("tag", <<"<", "?", "p", "h", "p", " ">>), Chunk("str", <<"\"", "a", "\"">>) }

\* "'god' => 'willing', 'abc' => 'def', 'ghi' => [ 'jkl' => 1.0, 2.0 ] ]", the
\* body of the input of tests/test.rs and of the first scenario of the spec.
GodWilling ==
    << Chunk("str", <<"'", "g", "o", "d", "'", " ">>), Chunk("arrow", <<"=", ">", " ">>),
       Chunk("str", <<"'", "w", "i", "l", "l", "i", "n", "g", "'">>),
       Chunk("sep", <<",", " ">>),
       Chunk("str", <<"'", "a", "b", "c", "'", " ">>), Chunk("arrow", <<"=", ">", " ">>),
       Chunk("str", <<"'", "d", "e", "f", "'">>), Chunk("sep", <<",", " ">>),
       Chunk("str", <<"'", "g", "h", "i", "'", " ">>), Chunk("arrow", <<"=", ">", " ">>),
       Chunk("open", <<"[", " ">>),
       Chunk("str", <<"'", "j", "k", "l", "'", " ">>), Chunk("arrow", <<"=", ">", " ">>),
       Chunk("scalar", <<"1", ".", "0">>), Chunk("sep", <<",", " ">>),
       Chunk("scalar", <<"2", ".", "0", " ">>), Chunk("close", <<"]", " ">>),
       Chunk("close", <<"]">>) >>

\* The input of `abel` in tests/test.rs.
ExTest == << Chunk("tag", <<"<", "?", "p", "h", "p", " ">>), Chunk("open", <<"[", " ">>) >>
              \o GodWilling

\* The first end-to-end scenario of the spec.
ExReturn ==
    << Chunk("tag", <<"<", "?", "p", "h", "p", " ">>),
       Chunk("return", <<"r", "e", "t", "u", "r", "n", " ">>),
       Chunk("open", <<"[", " ">>) >> \o GodWilling

\* "[true, false, null]"
ExBools ==
    << Chunk("open", <<"[">>), Chunk("scalar", <<"t", "r", "u", "e">>),
       Chunk("sep", <<",", " ">>), Chunk("scalar", <<"f", "a", "l", "s", "e">>),
       Chunk("sep", <<",", " ">>), Chunk("scalar", <<"n", "u", "l", "l">>),
       Chunk("close", <<"]">>) >>

\* "[1 2]"
ExMissingComma ==
    << Chunk("open", <<"[">>), Chunk("scalar", <<"1", " ">>), Chunk("scalar", <<"2">>),
       Chunk("close", <<"]">>) >>

\* "[1, 2, 3" and its two ends, ",]" and "]"
OneTwoThree ==
    << Chunk("open", <<"[">>), Chunk("scalar", <<"1">>), Chunk("sep", <<",", " ">>),
       Chunk("scalar", <<"2">>), Chunk("sep", <<",", " ">>), Chunk("scalar", <<"3">>) >>
ExTrailing == OneTwoThree \o << Chunk("sep", <<",">>), Chunk("close", <<"]">>) >>
ExPlain == OneTwoThree \o << Chunk("close", <<"]">>) >>

\* "[[1,],]"
ExNested ==
    << Chunk("open", <<"[">>), Chunk("open", <<"[">>), Chunk("scalar", <<"1">>),
       Chunk("sep", <<",">>), Chunk("close", <<"]">>), Chunk("sep", <<",">>),
       Chunk("close", <<"]">>) >>

\* "[1 => 'x']"
ExInvalidKey ==
    << Chunk("open", <<"[">>), Chunk("scalar", <<"1", " ">>), Chunk("arrow", <<"=", ">", " ">>),
       Chunk("str", <<"'", "x", "'">>), Chunk("close", <<"]">>) >>

\* "[foo]"
ExWord ==
    << Chunk("open", <<"[">>), Chunk("word", <<"f", "o", "o">>), Chunk("close", <<"]">>) >>

\* "[TRUE,False,nUlL]"
ExUpper ==
    << Chunk("open", <<"[">>), Chunk("scalar", <<"T", "R", "U", "E">>), Chunk("sep", <<",">>),
       Chunk("scalar", <<"F", "a", "l", "s", "e">>), Chunk("sep", <<",">>),
       Chunk("scalar", <<"n", "U", "l", "L">>), Chunk("close", <<"]">>) >>

\* The inputs the spec and the tests name, and variations of them, fed beyond
\* MaxFeed.
Examples ==
    {ExTest, ExReturn, ExBools, ExMissingComma, ExTrailing, ExPlain, ExNested,
     ExInvalidKey, ExWord, ExUpper,
     \* "[1..]" and "[1E]": numbers that do not parse
     << Chunk("open", <<"[">>), Chunk("scalar", <<"1", ".", ".">>), Chunk("close", <<"]">>) >>,
     << Chunk("open", <<"[">>), Chunk("scalar", <<"1", "E">>), Chunk("close", <<"]">>) >>,
     \* "[1e0]" and "[1.0e0]": numbers with an exponent
     << Chunk("open", <<"[">>), Chunk("scalar", <<"1", "e", "0">>), Chunk("close", <<"]">>) >>,
     << Chunk("open", <<"[">>), Chunk("scalar", <<"1", ".", "0", "e", "0">>),
        Chunk("close", <<"]">>) >>,
     \* "[[1] 2]" and "[[1] [2]]": a value right after a nested set
     << Chunk("open", <<"[">>), Chunk("open", <<"[">>), Chunk("scalar", <<"1">>),
        Chunk("close", <<"]", " ">>), Chunk("scalar", <<"2">>), Chunk("close", <<"]">>) >>,
     << Chunk("open", <<"[">>), Chunk("open", <<"[">>), Chunk("scalar", <<"1">>),
        Chunk("close", <<"]", " ">>), Chunk("open", <<"[">>), Chunk("scalar", <<"2">>),
        Chunk("close", <<"]">>), Chunk("close", <<"]">>) >>}

\* The characters php_str is run on: the seven it escapes by name, the four
\* it escapes otherwise, and a plain one.
StrAlphabet ==
    {Ord["NUL"], Ord["BEL"], Ord["ESC"], Ord["FF"], Ord["CR"], Ord["LF"], Ord["TAB"],
     Ord["'"], Ord["\""], Ord["$"], Ord["\\"], Ord["a"]}

RECURSIVE Flatten(_)
\* The text of a sequence of chunks.
Flatten(chunks) ==
    IF chunks = <<>> THEN <<>> ELSE Head(chunks).text \o Flatten(Tail(chunks))

\* The input text of the run so far.
input == Flatten(fed)

\* The chunks that may come next: any of Alphabet while under MaxFeed, and
\* the next one of each named input the run is a prefix of.
Offered ==
    (IF Len(fed) < MaxFeed THEN Alphabet ELSE {})
        \cup { ex[Len(fed) + 1] :
                 ex \in {e \in Examples : Len(e) > Len(fed) /\ SubSeq(e, 1, Len(fed)) = fed} }

-----------------------------------------------------------------------------
(* The runs *)

NoResult == [kind |-> "None"]

\* No file is read and no sink is written to.
NoIo == [kind |-> "None"]

\* deser_str is entered: the lexer's locals are fresh, nothing is fed.
Init ==
    /\ phase = "lex"
    /\ fed = <<>>
    /\ lx = LexerNew
    /\ de = DeserNew
    /\ ret = NoResult
    /\ text = <<>>
    /\ back = NoResult
    /\ ps = PhpNew
    /\ lit = <<>>
    /\ io = NoIo

\* The next chunk of the input text. lex goes over it unless it has already
\* returned an error: it returns at the first one and reads no further.
Feed ==
    /\ phase = "lex"
    /\ \E chunk \in Offered :
         /\ fed' = Append(fed, chunk)
         /\ lx' = IF lx.res.kind = "Ok" THEN lex(lx, chunk.text) ELSE lx
    /\ UNCHANGED <<phase, de, ret, text, back, ps, lit>>
    /\ io' = io

\* Fault: a deser_str that takes the tokens lex emitted before it looks at
\* what lex returned.
EofDefers ==
    /\ phase = "lex"
    /\ lx' = IF lx.res.kind = "Ok" THEN eof(lx) ELSE lx
    /\ phase' = "tokens"
    /\ UNCHANGED <<fed, de, ret, text, back, ps, lit>>
    /\ io' = io

\* The input text is over. An error of lex is what deser_str returns (the
\* `?` after lex); otherwise eof, whose error is returned likewise; otherwise
\* the token loop starts.
Eof ==
    /\ phase = "lex"
    /\ LET L == IF lx.res.kind = "Ok" THEN eof(lx) ELSE lx IN
         /\ lx' = L
         /\ IF L.res.kind = "Ok"
            THEN phase' = "tokens" /\ ret' = ret
            ELSE phase' = "done" /\ ret' = lexFailure(L)
    /\ UNCHANGED <<fed, de, text, back, ps, lit>>
    /\ io' = io

\* One turn of the token loop; an error is returned at once.
Token ==
    /\ phase = "tokens"
    /\ ~deserLoopDone(de, lx.d)
    /\ LET D == deserToken(de, lx.d[de.i]) IN
         /\ de' = D
         /\ IF D.res.kind = "Ok"
            THEN UNCHANGED <<phase, ret>>
            ELSE phase' = "done" /\ ret' = deserReturn(D)
    /\ UNCHANGED <<fed, lx, text, back, ps, lit>>
    /\ io' = io

\* The token loop is over: Ok(current).
Return ==
    /\ phase = "tokens"
    /\ deserLoopDone(de, lx.d)
    /\ phase' = "done"
    /\ ret' = deserReturn(de)
    /\ UNCHANGED <<fed, lx, de, text, back, ps, lit>>
    /\ io' = io

\* The caller serializes the tree it got.
Serialize ==
    /\ phase = "done"
    /\ ret.kind = "Ok"
    /\ phase' = "ser"
    /\ text' = ser_str(ret.tree)
    /\ UNCHANGED <<fed, lx, de, ret, back, ps, lit>>
    /\ io' = io

\* The caller deserializes the text it wrote.
Reparse ==
    /\ phase = "ser"
    /\ phase' = "back"
    /\ back' = deser_str(text)
    /\ UNCHANGED <<fed, lx, de, ret, text, ps, lit>>
    /\ io' = io

Next == Feed \/ Eof \/ Token \/ Return \/ Serialize \/ Reparse

Spec == Init /\ [][Next]_vars

\* php_str is entered on a string of which nothing is known yet.
InitStr ==
    /\ phase = "scan"
    /\ fed = <<>>
    /\ lx = LexerNew
    /\ de = DeserNew
    /\ ret = NoResult
    /\ text = <<>>
    /\ back = NoResult
    /\ ps = PhpNew
    /\ lit = <<>>
    /\ io = NoIo

\* One turn of the loop of php_str, on the next character of its input.
Scan ==
    /\ phase = "scan"
    /\ Len(ps.seen) < MaxStr
    /\ \E c \in StrAlphabet : ps' = phpChar(ps, c)
    /\ UNCHANGED <<phase, fed, lx, de, ret, text, back, lit>>
    /\ io' = io

\* The input is over: php_str returns its literal.
Quote ==
    /\ phase = "scan"
    /\ phase' = "quoted"
    /\ lit' = phpFinish(ps)
    /\ UNCHANGED <<fed, lx, de, ret, text, back, ps>>
    /\ io' = io

\* The literal is read back by a fresh lexer: lex over all of it.
Relex ==
    /\ phase = "quoted"
    /\ phase' = "relex"
    /\ lx' = lex(LexerNew, lit)
    /\ UNCHANGED <<fed, de, ret, text, back, ps, lit>>
    /\ io' = io

\* eof after that lex, if it returned Ok.
RelexEof ==
    /\ phase = "relex"
    /\ phase' = "end"
    /\ lx' = IF lx.res.kind = "Ok" THEN eof(lx) ELSE lx
    /\ UNCHANGED <<fed, de, ret, text, back, ps, lit>>
    /\ io' = io

NextStr == Scan \/ Quote \/ Relex \/ RelexEof

SpecStr == InitStr /\ [][NextStr]_vars

-----------------------------------------------------------------------------
(* Properties: the round trip and the quoting scan *)

\* C1: deser_str(ser_str(T)) = T, for every tree T deser_str has returned:
\* the text ser_str writes reads back as an equal tree.
RoundTrip == phase = "back" => back = DeserOk(ret.tree)

\* The round trip of the empty tree ends in the lexer, at the ';' ser_str
\* wrote after the closing bracket.
RoundTripStopsAtSemicolon ==
    /\ phase = "back"
    /\ ret = DeserOk(<<>>)
    /\ back.kind = "Err"
    /\ back.err = "Lex"
    /\ back.arg = [kind |-> "Unexpected", arg |-> Ord[";"]]

\* The string tokens.
StringKinds == {"SingleQuote", "DoubleQuote"}

\* C2: the literal php_str(s) reads back, under lex and eof, as exactly one
\* string token whose text is s, runs of backslashes before a control
\* character included.
LiteralReadsBack ==
    phase = "end" =>
        /\ lx.res.kind = "Ok"
        /\ Len(lx.d) = 1
        /\ lx.d[1].kind \in StringKinds
        /\ lx.d[1].text = ps.seen

\* Two backslashes and a line feed read back as three backslashes and a
\* line feed.
BackslashesGrow ==
    /\ phase = "end"
    /\ ps.seen = Chars(<<"\\", "\\", "LF">>)
    /\ lx.res.kind = "Ok"
    /\ Len(lx.d) = 1
    /\ lx.d[1].text = Chars(<<"\\", "\\", "\\", "LF">>)

\* s has one of NUL, BEL, ESC, FF, CR, LF, TAB.
HasControl(x) == \E i \in 1..Len(x) : IsControl(x[i])

\* The literal is in the quotes q, first and last.
QuotedIn(x, q) == Len(x) >= 2 /\ x[1] = Ord[q] /\ x[Len(x)] = Ord[q]

\* A string without a control character is written in single quotes, a
\* string with one in double quotes.
QuotesChosen ==
    phase \in {"quoted", "relex", "end"} =>
        /\ HasControl(ps.seen) => QuotedIn(lit, "\"")
        /\ ~HasControl(ps.seen) => QuotedIn(lit, "'")
        /\ php_str(Chars(<<"i", "t", "'", "s">>)) = Chars(<<"'", "i", "t", "\\", "'", "s", "'">>)

\* C3: php_str writes a double-quoted literal exactly when its input has one
\* of NUL, BEL, ESC, FF, CR, LF, TAB, and a single-quoted one otherwise; the
\* scan is in mode Decided from the first such character on and never leaves
\* it.
DecidedForGood ==
    /\ []QuotesChosen
    /\ [][ps.state = "Decided" => ps'.state = "Decided"]_vars
    /\ [](HasControl(ps.seen) <=> ps.state = "Decided")

\* A scan that went on in Decided over a backslash and a quote, and wrote
\* its literal.
DecidedKept ==
    /\ phase = "quoted"
    /\ ps.state = "Decided"
    /\ ps.seen = Chars(<<"TAB", "\\", "'">>)
    /\ lit = Chars(<<"\"", "\\", "t", "\\", "\\", "'", "\"">>)

-----------------------------------------------------------------------------
(* Properties: the string tokens *)

\* The place of the first q in x at or after i; 0 if there is none.
NextAt(x, i, q) ==
    IF \E j \in i..Len(x) : x[j] = q
    THEN CHOOSE j \in i..Len(x) : x[j] = q /\ \A k \in i..(j - 1) : x[k] # q
    ELSE 0

\* The input text between the quote the token tok starts at and the next
\* quote of the same kind.
Between(tok) ==
    LET from == tok.pos.index
        to == NextAt(input, from + 1, input[from])
    IN  SubSeq(input, from + 1, to - 1)

\* The text has a backslash, the start of an escape.
HasEscape(x) == \E j \in 1..Len(x) : x[j] = Ord["\\"]

\* C4: a string token carries the text between its own quotes, whatever
\* lexeme came before it; so the first pair of the first scenario of the
\* spec has the key "god" and the value "willing".
OwnText ==
    /\ \A k \in DOMAIN lx.d :
          (lx.d[k].kind \in StringKinds /\ ~HasEscape(Between(lx.d[k])))
              => lx.d[k].text = Between(lx.d[k])
    /\ (fed = ExReturn /\ phase = "done") =>
          /\ ret.kind = "Ok"
          /\ Len(ret.tree) = 3
          /\ ret.tree[1] = KeyValuePair(Some(Chars(<<"g", "o", "d">>)),
                                        VStr(Chars(<<"w", "i", "l", "l", "i", "n", "g">>)))

\* The first key of the first scenario of the spec comes out as "returngod".
KeyCarriesReturn ==
    /\ fed = ExReturn
    /\ phase = "done"
    /\ ret.kind = "Ok"
    /\ ret.tree[1].key = Some(Chars(<<"r", "e", "t", "u", "r", "n", "g", "o", "d">>))

-----------------------------------------------------------------------------
(* Properties: the token pass *)

\* The grammar of the format over the kinds of the chunks fed: an optional
\* tag, an optional `return` after it, and a root set of elements, each a
\* value or a string key, "=>" and a value, with commas between them and at
\* most one after the last; elems are the elements of the root set.
RefNew == [st |-> "start", depth |-> 0, elems |-> <<>>]

\* The grammar, one chunk on.
RefStep(R, k) ==
    LET top == R.depth = 1
        n == Len(R.elems)
        value(nested) ==
            IF ~top THEN R.elems
            ELSE IF R.st = "arrow" THEN [R.elems EXCEPT ![n].nested = nested]
            ELSE Append(R.elems, [keyed |-> FALSE, nested |-> nested])
    IN  CASE R.st = "start" /\ k = "tag" -> [R EXCEPT !.st = "tagged"]
          [] R.st = "tagged" /\ k = "return" -> [R EXCEPT !.st = "returned"]
          [] R.st \in {"start", "tagged", "returned"} /\ k = "open" ->
                [R EXCEPT !.st = "elem", !.depth = 1]
          [] R.st \in {"elem", "arrow"} /\ k \in {"str", "scalar"} ->
                [R EXCEPT !.st = IF k = "str" /\ R.st = "elem" THEN "strv" ELSE "after",
                          !.elems = value(FALSE)]
          [] R.st \in {"elem", "arrow"} /\ k = "open" ->
                [R EXCEPT !.st = "elem", !.depth = @ + 1, !.elems = value(TRUE)]
          [] R.st = "strv" /\ k = "arrow" ->
                [R EXCEPT !.st = "arrow",
                          !.elems = IF top THEN [@ EXCEPT ![n].keyed = TRUE] ELSE @]
          [] R.st \in {"strv", "after"} /\ k = "sep" -> [R EXCEPT !.st = "elem"]
          [] R.st \in {"elem", "strv", "after"} /\ k = "close" ->
                [R EXCEPT !.st = IF top THEN "end" ELSE "after", !.depth = @ - 1]
          [] OTHER -> [R EXCEPT !.st = "bad"]

RECURSIVE RefRead(_, _)
\* The grammar over a sequence of chunks.
RefRead(R, chunks) ==
    IF chunks = <<>> THEN R ELSE RefRead(RefStep(R, Head(chunks).kind), Tail(chunks))

\* The input fed is a well-formed root set.
WellFormed == RefRead(RefNew, fed).st = "end"

\* C5: on a well-formed root set, with or without the tag before it,
\* deser_str returns Ok with one pair for each element of the root set, in
\* the order of the source, keyed where the element has a key and a Set
\* where it is a nested set; three pairs on the input of tests/test.rs.
RootPairs ==
    (phase = "done" /\ WellFormed) =>
        LET elems == RefRead(RefNew, fed).elems IN
        /\ ret.kind = "Ok"
        /\ Len(ret.tree) = Len(elems)
        /\ \A i \in 1..Len(elems) :
              /\ ret.tree[i].key.some = elems[i].keyed
              /\ (ret.tree[i].value.tag = "Set") = elems[i].nested

\* The root set "[12 ]" is turned down by the lexer at the second digit.
SecondDigitRefused ==
    /\ phase = "done"
    /\ fed = << Chunk("open", <<"[">>), Chunk("scalar", <<"1", "2", " ">>),
                Chunk("close", <<"]">>) >>
    /\ WellFormed
    /\ ret = FromLexError(LexError([index |-> 3, line |-> 0, column |-> 3], "Integer",
                                   "Unexpected", Ord["2"]))

\* The token loop is about to take a token, tokens[de.i].
TokenNext == phase = "tokens" /\ ~deserLoopDone(de, lx.d)

\* x in lower case.
Lowered(x) == [i \in 1..Len(x) |-> ToLower(x[i])]

\* The words that stage a value.
Keywords ==
    {Chars(<<"t", "r", "u", "e">>), Chars(<<"f", "a", "l", "s", "e">>),
     Chars(<<"n", "u", "l", "l">>)}

\* The token is a scalar value: a number, a string, or true, false or null.
IsScalarToken(tok) ==
    \/ tok.kind \in {"Int", "Float", "SingleQuote", "DoubleQuote"}
    \/ tok.kind = "Identifier" /\ Lowered(tok.text) \in Keywords

\* C6: a scalar token (a number, a string, true, false or null) that comes
\* while a value is staged is refused with MissingComma at the position of
\* that token, never written over the staged value: "[1 2]" fails at its 2.
MissingCommaAtToken ==
    /\ [][(TokenNext /\ de.pair_set /\ IsScalarToken(lx.d[de.i]))
             => /\ phase' = "done"
                /\ ret' = DeserError(lx.d[de.i].pos, "MissingComma", <<>>)]_vars
    /\ []((fed = ExMissingComma /\ phase = "done")
             => ret = DeserError([index |-> 4, line |-> 0, column |-> 4],
                                 "MissingComma", <<>>))

\* "[1 2]" has been refused at its 2, the 1 staged.
SecondScalarRefused ==
    /\ fed = ExMissingComma
    /\ phase = "done"
    /\ ret.kind = "Err"
    /\ ret.err = "MissingComma"
    /\ lx.d[de.i - 1].text = Chars(<<"2">>)

\* C7: "=>" is taken only while a Str is staged: the string becomes the
\* pending key, nothing is committed and nothing stays staged; with anything
\* else staged, or nothing, it is refused with InvalidKey at its position,
\* as in "[1 => 'x']".
AssignmentNeedsStr ==
    /\ [][(TokenNext /\ lx.d[de.i].kind = "Assignment")
             => IF de.pair_set /\ de.pair_value.tag = "Str"
                THEN /\ de'.pair_key = Some(de.pair_value.v)
                     /\ de'.current = de.current
                     /\ de'.data = de.data
                     /\ ~de'.pair_set
                     /\ de'.pair_value = VNull
                     /\ phase' = "tokens"
                     /\ ret' = ret
                ELSE /\ phase' = "done"
                     /\ ret' = DeserError(lx.d[de.i].pos, "InvalidKey", <<>>)]_vars
    /\ []((fed = ExInvalidKey /\ phase = "done")
             => ret = DeserError([index |-> 5, line |-> 0, column |-> 5],
                                 "InvalidKey", <<>>))

\* A staged string has become the pending key of a pair that is not yet
\* committed.
KeyPending ==
    /\ phase = "tokens"
    /\ de.i > 1
    /\ lx.d[de.i - 1].kind = "Assignment"
    /\ de.pair_key = Some(Chars(<<"a">>))
    /\ ~de.pair_set
    /\ de.current = <<>>

\* C8: an identifier that is none of true, false, null and return, in any
\* case, is refused with UnexpectedIdentifier, which carries the text as it
\* was written, at the position of the identifier; "[foo]" fails so, with
\* "foo".
UnknownWordRefused ==
    /\ [][(TokenNext /\ lx.d[de.i].kind = "Identifier"
                     /\ Lowered(lx.d[de.i].text)
                            \notin Keywords \cup {Chars(<<"r", "e", "t", "u", "r", "n">>)})
             => /\ phase' = "done"
                /\ ret' = DeserError(lx.d[de.i].pos, "UnexpectedIdentifier",
                                     lx.d[de.i].text)]_vars
    /\ []((fed = ExWord /\ phase = "done")
             => ret = DeserError([index |-> 2, line |-> 0, column |-> 2],
                                 "UnexpectedIdentifier", Chars(<<"f", "o", "o">>)))

\* "Foo" has been refused as it was written, after a value that was staged.
WordRefusedAsWritten ==
    /\ phase = "done"
    /\ ret.kind = "Err"
    /\ ret.err = "UnexpectedIdentifier"
    /\ ret.arg = Chars(<<"F", "o", "o">>)
    /\ de.pair_set

\* The text x without its i-th character.
DropAt(x, i) == SubSeq(x, 1, i - 1) \o SubSeq(x, i + 1, Len(x))

\* Two results of deser_str are the same but for the positions of errors.
SameOutcome(a, b) ==
    /\ a.kind = b.kind
    /\ a.kind = "Ok" => a.tree = b.tree
    /\ a.kind = "Err" => a.err = b.err /\ a.arg = b.arg

\* The places in the input of the commas that come right before a closing
\* bracket, with nothing but blanks between the two.
TrailingCommas ==
    { lx.d[k].pos.index : k \in { j \in 1..(Len(lx.d) - 1) :
          /\ lx.d[j].kind = "Separator"
          /\ lx.d[j + 1].kind = "CloseSet"
          /\ \A m \in (lx.d[j].pos.index + 1)..(lx.d[j + 1].pos.index - 1) :
                IsBlank(input[m]) } }

\* C9: a comma right before a closing bracket, of the root set or of a
\* nested one, changes nothing: the input reads as it does without that
\* comma, "[1, 2, 3,]" as "[1, 2, 3]".
TrailingCommaIgnored ==
    /\ phase = "done" =>
          \A i \in TrailingCommas :
              /\ input[i] = Ord[","]
              /\ SameOutcome(deser_str(DropAt(input, i)), ret)
    /\ (phase = "done" /\ fed \in {ExTrailing, ExPlain}) =>
          /\ ret.kind = "Ok"
          /\ Len(ret.tree) = 3
          /\ \A i \in 1..3 : ret.tree[i].key = None /\ ret.tree[i].value.tag = "Int"

\* "[[1,],]" has been read: a root of one nested set of one element.
NestedTrailingRead ==
    /\ phase = "done"
    /\ fed = ExNested
    /\ Cardinality(TrailingCommas) = 2
    /\ ret.kind = "Ok"
    /\ Len(ret.tree) = 1
    /\ ret.tree[1].value.tag = "Set"
    /\ Len(ret.tree[1].value.v) = 1

\* The value a keyword stands for.
KeywordValue(x) ==
    CASE x = Chars(<<"t", "r", "u", "e">>) -> VBool(TRUE)
      [] x = Chars(<<"f", "a", "l", "s", "e">>) -> VBool(FALSE)
      [] x = Chars(<<"n", "u", "l", "l">>) -> VNull

\* Three pairs without keys of the values true, false and Null.
BoolsAndNull ==
    << KeyValuePair(None, VBool(TRUE)), KeyValuePair(None, VBool(FALSE)),
       KeyValuePair(None, VNull) >>

\* C10: true, false and null, in any case, stage Bool(true), Bool(false) and
\* Null; a staged Null is committed as a pair like any other value, by a
\* comma and by the closing bracket; "[true, false, null]" reads as three
\* pairs without keys.
KeywordsStaged ==
    /\ [][(TokenNext /\ ~de.pair_set /\ lx.d[de.i].kind = "Identifier"
                     /\ Lowered(lx.d[de.i].text) \in Keywords)
             => /\ de'.pair_set
                /\ de'.pair_value = KeywordValue(Lowered(lx.d[de.i].text))
                /\ de'.current = de.current
                /\ phase' = "tokens"]_vars
    /\ [][(TokenNext /\ de.pair_set /\ de.pair_value = VNull
                     /\ \/ lx.d[de.i].kind = "Separator"
                        \/ lx.d[de.i].kind = "CloseSet" /\ de.data = <<>>)
             => /\ de'.current = Append(de.current, KeyValuePair(de.pair_key, VNull))
                /\ ~de'.pair_set]_vars
    /\ []((phase = "done" /\ fed \in {ExBools, ExUpper}) => ret = DeserOk(BoolsAndNull))

\* "[TRUE,False,nUlL]" has been read.
UpperCaseRead ==
    /\ phase = "done"
    /\ fed = ExUpper
    /\ ret = DeserOk(BoolsAndNull)

-----------------------------------------------------------------------------
(* The lexer on its own: lex over a text, character by character, then eof *)

\* The most characters a run feeds to lex, the named texts aside.
MaxLex == 3

\* A text as the chunks of one character each it is fed in.
Text(q) == [i \in 1..Len(q) |-> Chunk("char", <<q[i]>>)]

\* The characters the texts are made of: digits, the point, the quotes, the
\* backslash and the letters of the escapes, and what starts a comment, a
\* tag, an assignment and a set.
LexAlphabet ==
    { Text(<<c>>)[1] :
        c \in {"0", "1", "2", "5", "7", ".", "\"", "'", "\\", "x", "c", "{", "}",
               "/", "*", "<", "?", "p", "h", "=", "a", " ", "[", "LF"} }

\* The texts the claims name, and texts that reach the states deep in an
\* escape or a tag.
LexExamples ==
    { Text(<<"3", "0", "5">>), Text(<<"1", ".", "5">>), Text(<<"1", "0", ".", "0", "0">>),
      Text(<<"\"", "\\", "4", "0", "0", "\"">>), Text(<<"\"", "\\", "7", "7", "7", "\"">>),
      Text(<<"\"", "\\", "3", "7", "7", "\"">>), Text(<<"\"", "\\", "x", "4", "1", "\"">>),
      Text(<<"\"", "\\", "x", "{", "4", "1", "}", "\"">>),
      Text(<<"\"", "\\", "x", "4", "a", "\"">>), Text(<<"\"", "\\", "x", "F", "F", "\"">>),
      Text(<<"\"", "\\", "x", "{", "}", "\"">>),
      Text(<<"<", "?", "p", "h", "p", " ">>), Text(<<"/", "*", "*", "/">>),
      Text(<<"'", "\\", "x", "\\", "'", "\\", "\\", "'">>),
      Text(<<"?", ">">>), Text(<<"1", ";">>), Text(<<"a", ";">>),
      Text(<<"1", "[", "LF", "}">>) }

\* The characters that may come next.
OfferedLex ==
    (IF Len(fed) < MaxLex THEN LexAlphabet ELSE {})
        \cup { ex[Len(fed) + 1] :
                 ex \in {e \in LexExamples :
                            Len(e) > Len(fed) /\ SubSeq(e, 1, Len(fed)) = fed} }

\* A caller of lex starts with fresh locals.
InitLex ==
    /\ phase = "chars"
    /\ fed = <<>>
    /\ lx = LexerNew
    /\ de = DeserNew
    /\ ret = NoResult
    /\ text = <<>>
    /\ back = NoResult
    /\ ps = PhpNew
    /\ lit = <<>>
    /\ io = NoIo

\* One turn of `for c in source`, unless lex has returned an error.
Char ==
    /\ phase = "chars"
    /\ \E chunk \in OfferedLex :
         /\ fed' = Append(fed, chunk)
         /\ lx' = IF lx.res.kind = "Ok" THEN lexChar(lx, chunk.text[1]) ELSE lx
    /\ UNCHANGED <<phase, de, ret, text, back, ps, lit, io>>

\* The text is over: eof, if lex returned Ok.
End ==
    /\ phase = "chars"
    /\ phase' = "ended"
    /\ lx' = IF lx.res.kind = "Ok" THEN eof(lx) ELSE lx
    /\ UNCHANGED <<fed, de, ret, text, back, ps, lit, io>>

NextLex == Char \/ End

SpecLex == InitLex /\ [][NextLex]_vars

-----------------------------------------------------------------------------
(* Properties: the lexer *)

\* x is a run of one or more decimal digits.
IsDigitRun(x) == x # <<>> /\ \A i \in 1..Len(x) : InRange(x[i], "0", "9")

\* x is a run of digits, a point and a run of digits.
IsPointNumber(x) ==
    \E i \in 2..(Len(x) - 1) :
        /\ x[i] = Ord["."]
        /\ IsDigitRun(SubSeq(x, 1, i - 1))
        /\ IsDigitRun(SubSeq(x, i + 1, Len(x)))

\* The position of the first character of a text.
FirstPosition == [index |-> 1, line |-> 0, column |-> 1]

\* C11: a run of decimal digits is lexed as one Int token whose text is the
\* whole run, a run of digits with a point inside as one Float token whose
\* text is the whole lexeme ("1.5" as Float("1.5")); no digit is refused as
\* unexpected inside a number.
DigitsAccumulate ==
    /\ (phase = "ended" /\ IsDigitRun(input))
          => lx.res.kind = "Ok" /\ lx.d = <<Tok(FirstPosition, "Int", input)>>
    /\ (phase = "ended" /\ IsPointNumber(input))
          => lx.res.kind = "Ok" /\ lx.d = <<Tok(FirstPosition, "Float", input)>>
    /\ (lx.res.kind = "Unexpected" /\ lx.res.state \in {"Integer", "Decimal"})
          => ~InRange(lx.res.arg, "0", "9")

\* "305" is refused at its 5.
DigitRefused ==
    /\ phase = "ended"
    /\ input = Chars(<<"3", "0", "5">>)
    /\ lx.res = LexError([index |-> 3, line |-> 0, column |-> 3], "Integer",
                         "Unexpected", Ord["5"])

\* What eof is to make of the locals L, as the locals R after it: nothing
\* where no lexeme is open, the pending token where a number or an
\* identifier is, the EOF error anywhere else.
EofExpected(L, R) ==
    CASE L.s \in {"Initial", "LineComment", "MultiLineComment",
                  "MultiLineCommentPrepareExit"} ->
            R.res.kind = "Ok" /\ R.d = L.d
      [] L.s \in {"Integer", "Identifier", "Decimal"} ->
            /\ R.res.kind = "Ok"
            /\ R.d = Append(L.d, Tok(L.t, CASE L.s = "Integer" -> "Int"
                                            [] L.s = "Identifier" -> "Identifier"
                                            [] L.s = "Decimal" -> "Float", L.b))
      [] OTHER -> R.res.kind = "EOF" /\ R.d = L.d

\* C12: eof has an outcome in every state of the automaton: Ok and no token
\* in Initial and the comment states; Ok and one token (Int, Identifier,
\* Float) of the buffer at the token position in Integer, Identifier and
\* Decimal; the EOF error and no token in every other state.
EofTotal ==
    /\ [][(phase = "chars" /\ phase' = "ended" /\ lx.res.kind = "Ok")
             => EofExpected(lx, lx')]_vars
    /\ []((phase = "chars" /\ lx.res.kind = "Ok")
             => \A st \in States : EofExpected(Goto(lx, st), eof(Goto(lx, st))))

\* The text ended inside "\x{": the EOF error, no token.
EndedInEscape ==
    /\ phase = "ended"
    /\ input = Chars(<<"\"", "\\", "x", "{">>)
    /\ lx.res.kind = "EOF"
    /\ lx.res.state = "DoubleQuoteEscapeHexBound"
    /\ lx.d = <<>>

\* C13: lex and eof end with Ok or with a LexError, whatever the text: the
\* byte conversions of the octal and hex escapes are made on values of at
\* most 255 and never abort the process, "\400" to "\777" included.
NeverAborts == lx.res.kind # "Panic"

\* lex was aborted on "\400": the third digit made the code point 256.
OctalAborted ==
    /\ phase = "ended"
    /\ input = Chars(<<"\"", "\\", "4", "0", "0", "\"">>)
    /\ lx.res = LexPanic([index |-> 5, line |-> 0, column |-> 5],
                         "DoubleQuoteEscapeOctal3", 256)

-----------------------------------------------------------------------------
(* deser_file: a file is opened, read to a string and deserialized *)

\* The most chunks of text in a file.
MaxFile == 2

\* The texts of at most n chunks.
Inputs(n) == UNION { [1..k -> Alphabet] : k \in 0..n }

\* deser_file is entered with the path of a file: one that can be opened or
\* not, with bytes that are UTF-8 or not.
InitFile ==
    /\ phase = "path"
    /\ fed \in Inputs(MaxFile)
    /\ lx = LexerNew
    /\ de = DeserNew
    /\ ret = NoResult
    /\ text = <<>>
    /\ back = NoResult
    /\ ps = PhpNew
    /\ lit = <<>>
    /\ io \in [kind : {"File"}, opens : BOOLEAN, utf8 : BOOLEAN]

\* File::open(path).unwrap()
Open ==
    /\ phase = "path"
    /\ IF io.opens
       THEN phase' = "open" /\ ret' = ret
       ELSE phase' = "done" /\ ret' = Aborted
    /\ UNCHANGED <<fed, lx, de, text, back, ps, lit, io>>

\* f.read_to_string(&mut s).unwrap()
ReadToString ==
    /\ phase = "open"
    /\ IF io.utf8
       THEN phase' = "read" /\ ret' = ret
       ELSE phase' = "done" /\ ret' = Aborted
    /\ UNCHANGED <<fed, lx, de, text, back, ps, lit, io>>

\* deser_str(&s)
Deser ==
    /\ phase = "read"
    /\ phase' = "done"
    /\ ret' = deser_str(input)
    /\ UNCHANGED <<fed, lx, de, text, back, ps, lit, io>>

NextFile == Open \/ ReadToString \/ Deser

SpecFile == InitFile /\ [][NextFile]_vars

\* C14: deser_file hands a failure to open the file, or to decode it as
\* UTF-8, to its caller as an I/O failure, a value that is no DeserError; the
\* program is not aborted and deser_str is not run; and deser_file is
\* deser_str on the text of a file that can be read.
FileFailureReturned ==
    /\ phase = "done" =>
          /\ ret = deser_file([opens |-> io.opens, utf8 |-> io.utf8, content |-> input])
          /\ (io.opens /\ io.utf8) => ret = deser_str(input)
          /\ ~(io.opens /\ io.utf8) => ret.kind = "Io"

\* The file could not be opened, and the program was aborted.
OpenAborted ==
    /\ phase = "done"
    /\ ~io.opens
    /\ ret = Aborted

-----------------------------------------------------------------------------
(* The serializer on its own: a tree is written to a sink and to a string *)

\* The most chunks of the texts the trees are read from, the named ones
\* aside.
MaxTree == 3

\* "['a'=>[],[[],1 ,],1 ]": empty sets with and without a key, at two depths,
\* each with a sibling after it.
ExEmpties ==
    << Chunk("open", <<"[">>), Chunk("str", <<"'", "a", "'">>), Chunk("arrow", <<"=", ">">>),
       Chunk("open", <<"[">>), Chunk("close", <<"]">>), Chunk("sep", <<",">>),
       Chunk("open", <<"[">>), Chunk("open", <<"[">>), Chunk("close", <<"]">>),
       Chunk("sep", <<",">>), Chunk("scalar", <<"1", " ">>), Chunk("sep", <<",">>),
       Chunk("close", <<"]">>), Chunk("sep", <<",">>), Chunk("scalar", <<"1", " ">>),
       Chunk("close", <<"]">>) >>

\* "[[[1 ]]]"
ExDeep ==
    << Chunk("open", <<"[">>), Chunk("open", <<"[">>), Chunk("open", <<"[">>),
       Chunk("scalar", <<"1", " ">>), Chunk("close", <<"]">>), Chunk("close", <<"]">>),
       Chunk("close", <<"]">>) >>

\* The texts the trees are read from: the short ones and the named ones that
\* deser_str reads to the end.
Sources ==
    { i \in Inputs(MaxTree) \cup {ExTest, ExBools, ExNested, ExEmpties, ExDeep} :
        deser_str(Flatten(i)).kind = "Ok" }

\* A caller holds a tree, and a sink that fails at one of the writes ser_write
\* makes of the tree, before or after the first character of it, or at none.
InitSer ==
    /\ phase = "tree"
    /\ fed \in Sources
    /\ lx = LexerNew
    /\ de = DeserNew
    /\ ret = deser_str(Flatten(fed))
    /\ text = <<>>
    /\ back = NoResult
    /\ ps = PhpNew
    /\ lit = <<>>
    /\ io \in { WriterNew(k, p) : k \in 0..ser_write(WriterNew(0, 0), ret.tree).calls,
                             p \in 0..1 }
    /\ io.failAt = 0 => io.part = 0

\* ser_write(output, buf)
Write ==
    /\ phase = "tree"
    /\ phase' = "written"
    /\ io' = ser_write(io, ret.tree)
    /\ UNCHANGED <<fed, lx, de, ret, text, back, ps, lit>>

\* ser_str(output), of the same tree.
Str ==
    /\ phase = "written"
    /\ phase' = "both"
    /\ text' = ser_str(ret.tree)
    /\ UNCHANGED <<fed, lx, de, ret, back, ps, lit, io>>

NextSer == Write \/ Str

SpecSer == InitSer /\ [][NextSer]_vars

-----------------------------------------------------------------------------
(* Properties: the serializer *)

\* C15: on a sink whose writes all succeed, what ser_write has written, all
\* of its writes one after the other, is the string ser_str returns for the
\* same tree, and ser_write returns Ok.
WriteIsStr ==
    (phase = "both" /\ io.failAt = 0) => io.res = IoOk /\ io.written = text

\* The tree of tests/test.rs has been written to a sink and to a string.
TestTreeWritten ==
    /\ phase = "both"
    /\ io.failAt = 0
    /\ fed = ExTest
    /\ io.calls > 10
    /\ io.written = text

\* a is the start of b.
IsPrefix(a, b) == Len(a) <= Len(b) /\ a = SubSeq(b, 1, Len(a))

\* C16: when a write to the sink fails during ser_write, at whatever depth
\* of nesting, no write is made after it, ser_write returns that error, and
\* what the sink has got is the start of the full output.
WriteStopsAtFailure ==
    (phase \in {"written", "both"} /\ io.failAt > 0) =>
        /\ io.res = IoError
        /\ io.calls = io.failAt
        /\ io.late = 0
        /\ IsPrefix(io.written, ser_str(ret.tree))

\* The sink failed three sets deep, at the one scalar of "[[[1 ]]]", one
\* character into it.
FailedDeep ==
    /\ phase = "written"
    /\ fed = ExDeep
    /\ io.res = IoError
    /\ io.part = 1
    /\ Len(io.tabs) = 3
    /\ io.written = Preamble \o Chars(<<"TAB", "[", "TAB", "TAB", "[", "TAB">>)

\* What ser_str has written when ser_str_ex is entered for the root.
Root == [buf |-> Preamble, tabs |-> <<Ord["TAB"]>>]

RECURSIVE Siblings(_, _, _)
\* The siblings of output and of the sets in it, B being what is written
\* when the first of output is come to: each with its depth d, the number of
\* characters written before it and when it is done, its key prefix, and
\* whether it is a set without children.
Siblings(B, d, output) ==
    IF output = <<>> THEN {}
    ELSE LET kvp == Head(output)
             inner == IF kvp.value.tag = "Set"
                      THEN Siblings([B EXCEPT !.buf = @ \o B.tabs \o key_prefix(kvp)
                                                      \o <<Ord["["]>>,
                                              !.tabs = Append(@, Ord["TAB"])],
                                    d + 1, kvp.value.v)
                      ELSE {}
         IN  inner \cup
             UNION { {[depth |-> d, at |-> Len(B.buf), end |-> Len(b.buf),
                       prefix |-> key_prefix(kvp),
                       empty |-> kvp.value.tag = "Set" /\ kvp.value.v = <<>>]}
                     \cup Siblings(b, d, Tail(output)) : b \in {serPair(B, kvp)} }

\* C17: in the output of the serializer every sibling, at every depth d, is
\* on a line of its own: a newline comes before it, then d tabs and no more,
\* and so for the first child of a set too, which is not on the line of the
\* bracket that opens the set.
OwnLines ==
    phase = "both" =>
        \A s \in Siblings(Root, 1, ret.tree) :
            /\ text[s.at] = Ord["LF"]
            /\ \A i \in 1..s.depth : text[s.at + i] = Ord["TAB"]
            /\ text[s.at + s.depth + 1] # Ord["TAB"]

\* "[[[1 ]]]" is written with each first child on the line of the bracket
\* before it.
ChildOnBracketLine ==
    /\ phase = "both"
    /\ fed = ExDeep
    /\ text = Preamble
              \o Chars(<<"TAB", "[", "TAB", "TAB", "[", "TAB", "TAB", "TAB", "1", ",", "LF",
                         "]", ",", "LF", "]", ",", "LF">>)
              \o Closing
    /\ \E s \in Siblings(Root, 1, ret.tree) : s.depth = 2 /\ s.at = Len(Preamble) + 2

\* C18: whatever the tree, the empty one too, the string of ser_str starts
\* with "<?php\nreturn [\n" and ends with "];\n", and every sibling at every
\* depth, the last of a set too, ends with a comma and a newline.
Framed ==
    phase = "both" =>
        /\ IsPrefix(Preamble, text)
        /\ Len(text) >= Len(Preamble) + Len(Closing)
        /\ SubSeq(text, Len(text) - Len(Closing) + 1, Len(text)) = Closing
        /\ \A s \in Siblings(Root, 1, ret.tree) :
               /\ s.end <= Len(text) - Len(Closing)
               /\ text[s.end - 1] = Ord[","]
               /\ text[s.end] = Ord["LF"]

\* "[[1,],]" is written: the one child, the last of its set, and the set,
\* the last of the root, end with ",\n".
LastSiblingsClosed ==
    /\ phase = "both"
    /\ fed = ExNested
    /\ text = Preamble
              \o Chars(<<"TAB", "[", "TAB", "TAB", "1", ",", "LF", "]", ",", "LF">>)
              \o Closing
    /\ \E s \in Siblings(Root, 1, ret.tree) : s.depth = 2 /\ s.end = Len(text) - 6

\* n tabs
Tabs(n) == [i \in 1..n |-> Ord["TAB"]]

\* C19: a set without children is written as "[]" and no more, on the line
\* of its key if it has one ("<key> => [],"), at whatever depth, and the
\* sibling after it is indented as it is.
EmptySetInline ==
    phase = "both" =>
        \A s \in Siblings(Root, 1, ret.tree) :
            s.empty =>
                /\ SubSeq(text, s.at + 1, s.end)
                       = Tabs(s.depth) \o s.prefix \o Chars(<<"[", "]", ",", "LF">>)
                /\ \A t \in Siblings(Root, 1, ret.tree) :
                       t.at = s.end =>
                           /\ SubSeq(text, t.at + 1, t.at + s.depth) = Tabs(s.depth)
                           /\ text[t.at + s.depth + 1] # Ord["TAB"]

\* "['a'=>[],[[],1 ,],1 ]" is written: an empty set under a key at depth 1
\* and one without a key at depth 2, each with a sibling after it.
EmptySetsWritten ==
    /\ phase = "both"
    /\ fed = ExEmpties
    /\ text = Preamble
              \o Chars(<<"TAB", "'", "a", "'", " ", "=", ">", " ", "[", "]", ",", "LF",
                         "TAB", "[", "TAB", "TAB", "[", "]", ",", "LF",
                         "TAB", "TAB", "1", ",", "LF", "]", ",", "LF",
                         "TAB", "1", ",", "LF">>)
              \o Closing

-----------------------------------------------------------------------------
(* Display of a Float on its own *)

\* The most significant digits, and the greatest power of ten either way, of
\* the Floats shown.
MaxDigits == 2
MaxExp == 3

\* A caller holds a pair with a Float for its value: zero or minus zero; a
\* finite one, its significant digits without a zero at either end; NaN; or
\* an infinity.
InitFmt ==
    /\ phase = "float"
    /\ fed = <<>>
    /\ lx = LexerNew
    /\ de = DeserNew
    /\ \E x \in [neg : BOOLEAN, digits : {<<>>}, exp : {0}]
                \cup [neg : BOOLEAN,
                      digits : { d \in UNION { [1..k -> {Ord["1"], Ord["2"], Ord["5"], Ord["0"]}] :
                                                 k \in 1..MaxDigits } :
                                   d[1] # Ord["0"] /\ d[Len(d)] # Ord["0"] },
                      exp : -MaxExp..MaxExp]
                \cup [neg : BOOLEAN, special : {"inf"}]
                \cup [neg : {FALSE}, special : {"nan"}] :
           ret = DeserOk(<<KeyValuePair(None, VFloat(x))>>)
    /\ text = <<>>
    /\ back = NoResult
    /\ ps = PhpNew
    /\ lit = <<>>
    /\ io = NoIo

\* format!("{}", value), of the Float held.
Fmt ==
    /\ phase = "float"
    /\ phase' = "shown"
    /\ text' = FmtValue(ret.tree[1].value)
    /\ UNCHANGED <<fed, lx, de, ret, back, ps, lit, io>>

SpecFmt == InitFmt /\ [][Fmt]_vars

\* C20: the text a Float is shown as always holds a decimal point: it is
\* format!("{}", x) if that holds one, and that with ".0" after it if not;
\* 2.0 is shown as "2.0".
FloatHasPoint ==
    phase = "shown" =>
        LET x == ret.tree[1].value.v IN
        /\ ContainsDot(text)
        /\ text \in {FmtF64(x), FmtF64(x) \o Chars(<<".", "0">>)}
        /\ (text = FmtF64(x)) = ContainsDot(FmtF64(x))
        /\ ("special" \notin DOMAIN x /\ ~x.neg /\ x.digits = <<Ord["2"]>> /\ x.exp = 0)
               => text = Chars(<<"2", ".", "0">>)

\* 2.0 has been shown as "2.0".
TwoShown ==
    /\ phase = "shown"
    /\ ret = DeserOk(<<KeyValuePair(None, VFloat([neg |-> FALSE, digits |-> <<Ord["2"]>>,
                                                  exp |-> 0]))>>)
    /\ text = Chars(<<"2", ".", "0">>)

-----------------------------------------------------------------------------
(* Properties: the token pass, continued *)

\* The token the loop took last.
TokenLast == lx.d[de.i - 1]

\* The loop has ended on a number token, taken with nothing staged.
EndedOnNumber(kind) ==
    /\ phase = "done"
    /\ lx.res.kind = "Ok"
    /\ de.i > 1
    /\ TokenLast.kind = kind
    /\ ~de.pair_set

\* C21: a Float token whose text is not a 64-bit float, as "1..", makes
\* deser_str return FloatCast with that text; an Int token whose text is not
\* a 64-bit signed integer makes it return IntCast with that text.
CastErrors ==
    /\ (EndedOnNumber("Float") /\ ~ParseF64(TokenLast.text).ok)
           => ret = DeserError(TokenLast.pos, "FloatCast", TokenLast.text)
    /\ (EndedOnNumber("Int") /\ ~ParseI64(TokenLast.text).ok)
           => ret = DeserError(TokenLast.pos, "IntCast", TokenLast.text)

\* "[1..]" has been refused with IntCast, not FloatCast, at its Float token.
FloatRefusedAsInt ==
    /\ phase = "done"
    /\ input = Chars(<<"[", "1", ".", ".", "]">>)
    /\ TokenLast.kind = "Float"
    /\ ret = DeserError([index |-> 2, line |-> 0, column |-> 2], "IntCast",
                        Chars(<<"1", ".", ".">>))

\* How many of the tokens the loop has taken are of the kind.
Taken(kind) == Cardinality({i \in 1..(de.i - 1) : lx.d[i].kind = kind})

\* C22: deser_str returns Ok only when every OpenSet it took was closed by a
\* CloseSet, and what it returns is the sibling sequence of the root: an
\* input that ends inside a set that is not closed, as "[1, [2", does not
\* give Ok with the siblings of the innermost set.
BracketsMatched ==
    (phase = "done" /\ ret.kind = "Ok") =>
        /\ Taken("OpenSet") = Taken("CloseSet")
        /\ de.data = <<>>

\* "[1 ,[" has been read to Ok with the siblings of the inner set, none, the
\* root and its 1 left on the stack of frames.
InnerReturned ==
    /\ phase = "done"
    /\ input = Chars(<<"[", "1", " ", ",", "[">>)
    /\ ret = DeserOk(<<>>)
    /\ Len(de.data) = 1
    /\ Taken("OpenSet") = 2
    /\ Taken("CloseSet") = 0

\* The k-th token is a CloseSet taken with no frame on the stack: the one
\* that closes the root.
RootClosedAt(k) ==
    LET D == deserLoop(DeserNew, SubSeq(lx.d, 1, k - 1)) IN
    /\ lx.d[k].kind = "CloseSet"
    /\ D.res.kind = "Ok"
    /\ ~D.lexer_break
    /\ D.data = <<>>

\* C23: the loop stops at the CloseSet that closes the root: the tokens after
\* it, those that would be refused with MissingComma, InvalidKey or
\* UnexpectedIdentifier too, are not taken, and deser_str returns Ok with
\* the tree as it is at that CloseSet.
StopsAtRootClose ==
    (phase = "done" /\ lx.res.kind = "Ok") =>
        \A k \in 1..Len(lx.d) :
            RootClosedAt(k) =>
                /\ ret.kind = "Ok"
                /\ ret = deserReturn(deserLoop(DeserNew, SubSeq(lx.d, 1, k)))
                /\ de.i = k + 1

\* "[1 ]Foo " has been read: Ok with the 1, the word after the root not
\* taken.
WordAfterRootIgnored ==
    /\ phase = "done"
    /\ input = Chars(<<"[", "1", " ", "]", "F", "o", "o", " ">>)
    /\ ret = DeserOk(<<KeyValuePair(None, VInt([neg |-> FALSE, digits |-> <<Ord["1"]>>]))>>)
    /\ RootClosedAt(3)
    /\ lx.d[4].kind = "Identifier"
    /\ de.i = 4

-----------------------------------------------------------------------------
(* Properties: the escapes of the strings *)

\* c is a hex digit.
IsHex(c) == InRange(c, "0", "9") \/ InRange(c, "a", "f") \/ InRange(c, "A", "F")

\* The value of the hex digit c.
HexValue(c) ==
    IF InRange(c, "0", "9") THEN c - Ord["0"]
    ELSE IF InRange(c, "a", "f") THEN c - Ord["a"] + 10
    ELSE c - Ord["A"] + 10

RECURSIVE HexRunValue(_)
\* The number a run of hex digits writes.
HexRunValue(x) ==
    IF x = <<>> THEN 0
    ELSE 16 * HexRunValue(SubSeq(x, 1, Len(x) - 1)) + HexValue(x[Len(x)])

\* lex and eof have gone over the text and this is all of it.
Lexed(x) == phase = "ended" /\ input = x

\* The text was read as one double-quoted string, and this is its content.
OneString(x) ==
    /\ lx.res.kind = "Ok"
    /\ lx.s = "Initial"
    /\ Len(lx.d) = 1
    /\ lx.d[1].kind = "DoubleQuote"
    /\ lx.d[1].text = x

\* C24: in a double-quoted string "\xHH", H1 and H2 hex digits of either
\* case, is the one character of code point 16 * H1 + H2, a to f and A to F
\* counting for 10 to 15.
TwoHexDigits ==
    (/\ phase = "ended"
     /\ Len(input) = 6
     /\ SubSeq(input, 1, 3) = Chars(<<"\"", "\\", "x">>)
     /\ IsHex(input[4]) /\ IsHex(input[5])
     /\ input[6] = Ord["\""])
        => OneString(<<16 * HexValue(input[4]) + HexValue(input[5])>>)

\* "\x4a" was read as the character 0x40, the a counting for 0.
LetterDigitLost ==
    /\ Lexed(Chars(<<"\"", "\\", "x", "4", "a", "\"">>))
    /\ OneString(<<64>>)

\* The hex digits between the braces of a text that is "\x{...}" and no
\* more.
Braced ==
    IF /\ Len(input) >= 6
       /\ SubSeq(input, 1, 4) = Chars(<<"\"", "\\", "x", "{">>)
       /\ SubSeq(input, Len(input) - 1, Len(input)) = Chars(<<"}", "\"">>)
       /\ \A i \in 5..(Len(input) - 2) : IsHex(input[i])
    THEN Some(SubSeq(input, 5, Len(input) - 2))
    ELSE None

\* C25: in a double-quoted string "\x{H...}" takes the hex digits up to the
\* closing brace, however many, and is the one character whose code point
\* they write, or the error InvalidUnicode if that is not a scalar value;
\* the brace adds nothing and the string goes on as before the escape.
BracedHex ==
    (phase = "ended" /\ Braced.some) =>
        IF IsScalarValue(HexRunValue(Braced.v))
        THEN OneString(<<HexRunValue(Braced.v)>>)
        ELSE lx.res.kind = "InvalidUnicode" /\ lx.res.arg = HexRunValue(Braced.v)

\* "\x{41}" was read as "A}": the escape was over at the second digit and
\* the brace was taken for a character of the string.
BraceKept ==
    /\ Lexed(Chars(<<"\"", "\\", "x", "{", "4", "1", "}", "\"">>))
    /\ OneString(Chars(<<"A", "}">>))

\* The character lex takes in this step, if it takes one.
Read == IF phase = "chars" /\ phase' = "chars" /\ lx.res.kind = "Ok" /\ Len(fed') = Len(fed) + 1
        THEN Some(fed'[Len(fed')].text[1])
        ELSE None

\* C26: in a single-quoted string a backslash before a backslash or a quote
\* adds that character alone, a backslash before anything else adds the
\* backslash and the character, and the string goes on either way; only a
\* quote that no backslash is before ends the token.
SingleQuoteEscapes ==
    [][Read.some =>
         LET c == Read.v IN
         /\ lx.s = "SingleQuoteEscape" =>
                /\ lx'.res.kind = "Ok"
                /\ lx'.s = "SingleQuote"
                /\ lx'.b = lx.b \o (IF c \in {Ord["\\"], Ord["'"]} THEN <<c>>
                                    ELSE <<Ord["\\"], c>>)
                /\ lx'.d = lx.d
         /\ lx.s = "SingleQuote" =>
                /\ lx'.res.kind = "Ok"
                /\ IF c = Ord["'"]
                   THEN /\ lx'.d = Append(lx.d, Tok(lx.t, "SingleQuote", lx.b))
                        /\ lx'.s = "Initial"
                   ELSE /\ lx'.d = lx.d
                        /\ lx'.s = (IF c = Ord["\\"] THEN "SingleQuoteEscape" ELSE "SingleQuote")
                        /\ lx'.b = (IF c = Ord["\\"] THEN lx.b ELSE Append(lx.b, c))]_vars

\* '\x\'\\' was read as the one string \x'\ .
SingleQuoteRead ==
    /\ Lexed(Chars(<<"'", "\\", "x", "\\", "'", "\\", "\\", "'">>))
    /\ lx.res.kind = "Ok"
    /\ lx.d = <<Tok([index |-> 1, line |-> 0, column |-> 1], "SingleQuote",
                    Chars(<<"\\", "x", "'", "\\">>))>>

-----------------------------------------------------------------------------
(* Properties: tags, closing characters, errors *)

\* The one character that goes on from each state of a tag, and where to.
TagNext ==
    [PrepareOpenTag |-> [c |-> Ord["?"], s |-> "PHPTag0"],
     PHPTag0 |-> [c |-> Ord["p"], s |-> "PHPTag1"],
     PHPTag1 |-> [c |-> Ord["h"], s |-> "PHPTag2"],
     PHPTag2 |-> [c |-> Ord["p"], s |-> "Initial"],
     PrepareCloseTag |-> [c |-> Ord[">"], s |-> "Initial"]]

\* C27: of the tags only "<?php" and "?>" are taken, each letting no token
\* out and ending in Initial; any other character after "<", "<?", "<?p",
\* "<?ph" or "?", as the "=" of "<?=", is the error Unexpected.
OnlyTheTags ==
    [][(Read.some /\ lx.s \in DOMAIN TagNext) =>
         IF Read.v = TagNext[lx.s].c
         THEN lx'.res.kind = "Ok" /\ lx'.s = TagNext[lx.s].s /\ lx'.d = lx.d
         ELSE lx'.res.kind = "Unexpected" /\ lx'.res.arg = Read.v /\ lx'.d = lx.d]_vars

\* "<?=" was taken for a tag: no error, no token, Initial again.
ShortTagTaken ==
    /\ Lexed(Chars(<<"<", "?", "=">>))
    /\ lx.res.kind = "Ok"
    /\ lx.s = "Initial"
    /\ lx.d = <<>>

\* The token that is pending in a state that gathers a lexeme.
Pending ==
    Tok(lx.t, [Integer |-> "Int", Decimal |-> "Float", Identifier |-> "Identifier"][lx.s], lx.b)

\* What lex would be left with had the pending token been emitted and the
\* character c, at the position p, then been taken in Initial.
Afresh(c, p) ==
    lexInitial([lx EXCEPT !.d = Append(@, Pending), !.s = "Initial", !.p = p], c)

\* C28: when Integer, Decimal or Identifier closes its lexeme on a character
\* c, what is emitted and what lex is left with (state, buffer, token start)
\* are what emitting the pending token and then taking c in Initial gives,
\* whichever the closing character, ";", "'" and the double quote too.
ClosingIsAfresh ==
    [][(/\ Read.some
        /\ lx.s \in {"Integer", "Decimal", "Identifier"}
        /\ Len(lx'.d) > Len(lx.d)) =>
         LET R == Afresh(Read.v, lx'.p) IN
         /\ lx'.res.kind = R.res.kind
         /\ lx'.d = R.d
         /\ lx'.s = R.s
         /\ lx'.b = R.b
         /\ lx'.t = R.t]_vars

\* "1;" closed the number on the ";" without an error, where Initial
\* refuses ";".
SemicolonCloses ==
    /\ phase = "chars"
    /\ input = Chars(<<"1", ";">>)
    /\ lx.res.kind = "Ok"
    /\ lx.s = "Initial"
    /\ lx.d = <<Tok([index |-> 1, line |-> 0, column |-> 1], "Int", Chars(<<"1">>))>>
    /\ lexInitial(lx, Ord[";"]).res.kind = "Unexpected"

\* lex has returned an error.
Refused(L) == L.res.kind \in {"Unexpected", "InvalidUnicode"}

\* C29: lex returns an error at the first character its state has no arm
\* for: the characters after it are not taken, no token is emitted for it or
\* after it, the tokens emitted before stay, the state is the one the
\* character was met in, and the error carries that state and the position
\* of the character.
ErrorAtFirstIllegal ==
    /\ [][(Read.some /\ Refused(lx')) =>
            /\ lx'.d = lx.d
            /\ lx'.s = lx.s
            /\ lx'.res.state = lx.s
            /\ lx'.res.position = advance(lx.p, Read.v = Ord["LF"])
            /\ lx'.res.position.index = Len(fed')]_vars
    /\ [][(phase = "chars" /\ phase' = "chars" /\ Refused(lx)) => lx' = lx]_vars
    /\ [](phase = "chars" => lex(LexerNew, input) = lx)

\* "[.[" was refused at the point: the bracket before it is in the output,
\* the one after it was not taken.
PointRefused ==
    /\ phase = "chars"
    /\ input = Chars(<<"[", ".", "[">>)
    /\ lx.res = LexError([index |-> 2, line |-> 0, column |-> 2], "Initial", "Unexpected",
                         Ord["."])
    /\ lx.s = "Initial"
    /\ lx.p.index = 2
    /\ lx.d = <<Tok([index |-> 1, line |-> 0, column |-> 1], "OpenSet", <<>>)>>

-----------------------------------------------------------------------------
(* Properties: the quoting scan, continued *)

\* What a candidate of php_str, closed with its quote q, reads back as: the
\* text of the one string token lex and eof make of it.
ReadsAs(cand, q) ==
    LET L == lex(LexerNew, Append(cand, Ord[q]))
        E == IF L.res.kind = "Ok" THEN eof(L) ELSE L
    IN  IF E.res.kind = "Ok" /\ Len(E.d) = 1 /\ E.d[1].kind \in StringKinds
        THEN Some(E.d[1].text)
        ELSE None

\* C30: in UndecidedEscape, a backslash pending, the characters '\', '"' and
\* '$' leave both candidates reading back as what they were, the pending
\* backslash and the character, and the mode Undecided; after two
\* backslashes the double-quoted candidate reads back as two backslashes.
EscapedKept ==
    [][(/\ phase = "scan"
        /\ ps.state = "UndecidedEscape"
        /\ Len(ps'.seen) = Len(ps.seen) + 1
        /\ ps'.seen[Len(ps'.seen)] \in {Ord["\\"], Ord["\""], Ord["$"]}) =>
         LET c == ps'.seen[Len(ps'.seen)] IN
         /\ ps'.state = "Undecided"
         /\ ReadsAs(ps.s, "'").some /\ ReadsAs(ps.d, "\"").some
         /\ ReadsAs(ps'.s, "'") = Some(ReadsAs(ps.s, "'").v \o <<Ord["\\"], c>>)
         /\ ReadsAs(ps'.d, "\"") = Some(Append(ReadsAs(ps.d, "\"").v, c))
         /\ ps'.seen = Chars(<<"\\", "\\">>)
                => ReadsAs(ps'.d, "\"") = Some(Chars(<<"\\", "\\">>))]_vars

\* After two backslashes the scan is still in UndecidedEscape and the
\* double-quoted candidate reads back as three backslashes.
ThirdBackslash ==
    /\ phase = "scan"
    /\ ps.seen = Chars(<<"\\", "\\">>)
    /\ ps.state = "UndecidedEscape"
    /\ ps.d = Chars(<<"\"", "\\", "\\", "\\", "\\", "\\", "\\">>)
    /\ ReadsAs(ps.d, "\"") = Some(Chars(<<"\\", "\\", "\\">>))

-----------------------------------------------------------------------------
(* Properties: nested sets *)

\* The pairs committed to the set being read, the staged one, which its
\* closing bracket commits, with them.
Children ==
    IF de.pair_set THEN Append(de.current, KeyValuePair(de.pair_key, de.pair_value))
    ELSE de.current

\* C31: the pair a nested set becomes at its CloseSet has the key that was
\* pending at its OpenSet, None if there was none, and for children the
\* pairs committed between the two brackets at that depth, in the order of
\* the source; it comes after the siblings the parent had, which are as they
\* were.
NestedSetPlaced ==
    /\ [][(TokenNext /\ lx.d[de.i].kind = "OpenSet" /\ ~de.first_open /\ ~de.pair_set) =>
            /\ de'.data = Append(de.data, <<de.pair_key, de.current>>)
            /\ de'.current = <<>>]_vars
    /\ [][(TokenNext /\ lx.d[de.i].kind = "CloseSet" /\ de.data # <<>>) =>
            LET top == de.data[Len(de.data)] IN
            /\ de'.res.kind = "Ok"
            /\ de'.data = SubSeq(de.data, 1, Len(de.data) - 1)
            /\ de'.current = Append(top[2], KeyValuePair(top[1], VSet(Children)))]_vars
    /\ [][(TokenNext /\ lx.d[de.i].kind \notin {"OpenSet", "CloseSet"})
            => de'.data = de.data]_vars

\* The input of tests/test.rs has been read: the set under 'ghi' is the
\* third of the root, after 'god' and 'abc', under a key, with its two
\* pairs, the first under a key and the second under none.
GhiPlaced ==
    /\ phase = "done"
    /\ fed = ExTest
    /\ ret.kind = "Ok"
    /\ Len(ret.tree) = 3
    /\ ret.tree[1].key = Some(Chars(<<"g", "o", "d">>))
    /\ ret.tree[3].key # None
    /\ ret.tree[3].value.tag = "Set"
    /\ Len(ret.tree[3].value.v) = 2
    /\ ret.tree[3].value.v[1].key # None
    /\ ret.tree[3].value.v[2].key = None

-----------------------------------------------------------------------------
(* Properties: the kind of a number *)

\* The text holds a point or an exponent marker.
HasPointOrExponent(x) == \E i \in 1..Len(x) : x[i] \in {Ord["."], Ord["e"], Ord["E"]}

\* C32: a number whose text holds a `.` or an exponent marker `e`/`E` is
\* emitted as a Float token and one of digits alone as an Int token; "1e0" is
\* emitted as Float("1e0") and is read as a Float value, not refused as an
\* integer.
ExponentIsFloat ==
    /\ \A k \in 1..Len(lx.d) :
          lx.d[k].kind \in {"Int", "Float"} =>
              (lx.d[k].kind = "Float" <=> HasPointOrExponent(lx.d[k].text))
    /\ (phase = "done" /\ input = Chars(<<"[", "1", "e", "0", "]">>))
           => /\ lx.d[2] = Tok([index |-> 2, line |-> 0, column |-> 2], "Float",
                               Chars(<<"1", "e", "0">>))
              /\ ret.kind = "Ok"
              /\ Len(ret.tree) = 1
              /\ ret.tree[1].value.tag = "Float"

\* "[1e0]" has been refused with IntCast at an Int token that holds the
\* exponent.
ExponentRefusedAsInt ==
    /\ phase = "done"
    /\ input = Chars(<<"[", "1", "e", "0", "]">>)
    /\ lx.d[2] = Tok([index |-> 2, line |-> 0, column |-> 2], "Int", Chars(<<"1", "e", "0">>))
    /\ ret = DeserError([index |-> 2, line |-> 0, column |-> 2], "IntCast",
                        Chars(<<"1", "e", "0">>))

-----------------------------------------------------------------------------
(* Properties: positions *)

\* How many newlines the text holds.
Newlines(x) == Cardinality({i \in 1..Len(x) : x[i] = Ord["LF"]})

\* How many characters the text holds after its last newline.
SinceNewline(x) ==
    LET nl == {i \in 1..Len(x) : x[i] = Ord["LF"]}
    IN  IF nl = {} THEN Len(x) ELSE Len(x) - (CHOOSE i \in nl : \A j \in nl : j <= i)

\* C33: from Position (0, 0, 0), after lex has processed n characters, the
\* n-th taken or refused with an error, the position has index n, for line
\* the number of newlines among them and for column the number of characters
\* since the last newline, 0 right after one; the positions of the tokens
\* emitted have strictly increasing indices in the order of emission.
PositionCounts ==
    /\ [][(phase = "chars" /\ lx.res.kind = "Ok" /\ fed' # fed /\ lx'.res.kind # "Panic") =>
            LET x == Flatten(fed') IN
            /\ lx'.p = [index |-> Len(x), line |-> Newlines(x), column |-> SinceNewline(x)]
            /\ lx'.res.kind # "Ok" => lx'.res.position = lx'.p]_vars
    /\ [](\A k \in 1..(Len(lx.d) - 1) : lx.d[k].pos.index < lx.d[k + 1].pos.index)

\* "1[", a newline and "}" have been processed: two tokens are out, at 1 and
\* at 2, and the brace is refused at index 4, on line 1, in column 1.
BraceRefusedOnSecondLine ==
    /\ phase = "chars"
    /\ Flatten(fed) = Chars(<<"1", "[", "LF", "}">>)
    /\ Len(lx.d) = 2
    /\ lx.d[1].pos.index = 1
    /\ lx.d[2].pos.index = 2
    /\ lx.res.kind = "Unexpected"
    /\ lx.res.position = [index |-> 4, line |-> 1, column |-> 1]
    /\ lx.p = [index |-> 4, line |-> 1, column |-> 1]

-----------------------------------------------------------------------------
(* Properties: the stack and the staged value *)

\* C34: whatever the tokens, with more CloseSet than OpenSet or a CloseSet
\* before any OpenSet, the stack of frames is popped only when it holds a
\* frame: a CloseSet taken with an empty stack ends the loop instead, which
\* returns Ok with the siblings read; and whenever no value is staged the
\* slot of the pending value holds Null.
PopsOnlyFrames ==
    /\ [][(TokenNext /\ lx.d[de.i].kind = "CloseSet" /\ de.data = <<>>) =>
            /\ de'.res.kind = "Ok"
            /\ de'.data = <<>>
            /\ de'.current = Children
            /\ de'.lexer_break
            /\ deserLoopDone(de', lx.d)]_vars
    /\ [][(phase = "tokens" /\ Len(de'.data) < Len(de.data)) =>
            /\ de.data # <<>>
            /\ lx.d[de.i].kind = "CloseSet"
            /\ Len(de'.data) = Len(de.data) - 1]_vars
    /\ [](phase \in {"tokens", "done"} => de.res.kind # "Panic")
    /\ []((phase = "done" /\ de.lexer_break) => ret = DeserOk(de.current))
    /\ [](~de.pair_set => de.pair_value = VNull)

\* "]" alone has been read: the CloseSet came before any OpenSet, nothing
\* was popped and the result is Ok with no pair.
CloseBeforeOpen ==
    /\ phase = "done"
    /\ input = Chars(<<"]">>)
    /\ de.first_open
    /\ de.lexer_break
    /\ de.data = <<>>
    /\ de.pair_value = VNull
    /\ ret = DeserOk(<<>>)

-----------------------------------------------------------------------------
(* Properties: a value after a nested set *)

\* C35: a value, scalar or set, that comes right after the closing bracket
\* of a nested set, with no comma between them, is refused with MissingComma
\* at its token, as a scalar after a scalar is: "[[1] 2]" and "[[1] [2]]"
\* are refused.
CommaAfterNestedSet ==
    /\ [][(/\ TokenNext
           /\ de.i > 1
           /\ lx.d[de.i - 1].kind = "CloseSet"
           /\ (IsScalarToken(lx.d[de.i]) \/ lx.d[de.i].kind = "OpenSet"))
             => /\ phase' = "done"
                /\ ret' = DeserError(lx.d[de.i].pos, "MissingComma", <<>>)]_vars
    /\ []((phase = "done" /\ input = Chars(<<"[", "[", "1", "]", " ", "2", "]">>))
             => ret = DeserError([index |-> 6, line |-> 0, column |-> 6],
                                 "MissingComma", <<>>))
    /\ []((phase = "done" /\ input = Chars(<<"[", "[", "1", "]", " ", "[", "2", "]", "]">>))
             => ret = DeserError([index |-> 6, line |-> 0, column |-> 6],
                                 "MissingComma", <<>>))

\* "[[1] 2]" has been read to Ok: the set and the 2 are siblings of the root.
ValueAfterSetRead ==
    /\ phase = "done"
    /\ input = Chars(<<"[", "[", "1", "]", " ", "2", "]">>)
    /\ ret.kind = "Ok"
    /\ Len(ret.tree) = 2
    /\ ret.tree[1].value.tag = "Set"
    /\ Len(ret.tree[1].value.v) = 1
    /\ ret.tree[2].value.tag = "Int"

-----------------------------------------------------------------------------
(* Properties: lexing comes first *)

\* C36: deser_str lexes the whole input, lex and then eof, before it looks
\* at a token: an input with a lexical error anywhere, be it after the root
\* set has closed or after the place of a grammar error such as MissingComma,
\* gives the error of the lexer, and a grammar error is returned only for an
\* input that lexes to the end.
LexedFirst ==
    /\ phase = "lex" => de = DeserNew
    /\ lx.res.kind # "Ok" =>
          /\ phase \in {"lex", "done"}
          /\ de = DeserNew
          /\ phase = "done" => ret = lexFailure(lx)
    /\ (phase = "done" /\ ret.kind = "Err" /\ ret.err # "Lex") =>
          /\ lex(LexerNew, input).res.kind = "Ok"
          /\ eof(lex(LexerNew, input)).res.kind = "Ok"
    /\ (phase = "done" /\ input = Chars(<<"[", "1", " ", "1", " ", "1", "2", " ">>)) =>
          /\ ret.kind = "Err"
          /\ ret.err = "Lex"
          /\ ret.position.index = 7
    /\ (phase = "done" /\ input = Chars(<<"[", "]", "1", "2", " ">>)) =>
          /\ ret.kind = "Err"
          /\ ret.err = "Lex"
          /\ ret.position.index = 4

\* "[1 1 12 " has been refused by the lexer at its last digit, with nothing
\* of the token pass done: the two numbers without a comma, which lex had
\* emitted, were never looked at.
LexErrorWins ==
    /\ phase = "done"
    /\ input = Chars(<<"[", "1", " ", "1", " ", "1", "2", " ">>)
    /\ Len(lx.d) = 3
    /\ lx.d[2].kind = "Int"
    /\ lx.d[3].kind = "Int"
    /\ de = DeserNew
    /\ ret.kind = "Err"
    /\ ret.err = "Lex"
    /\ ret.position.index = 7

=============================================================================
